---- MODULE Spec2Model ----
(***************************************************************************)
(* Job-skills knowledge graph builder: skill canonicalization              *)
(* (graph_builder/normalizer.py), graph assembly (graph_builder/graph.py)  *)
(* and subgraph extraction (graph_builder/sampler.py).                     *)
(*                                                                         *)
(* Text is modelled as a sequence of one-character strings, so that the    *)
(* canonicalization pipeline is computed character by character.           *)
(* Similarities are integers in units of 1e-5 (0.9 is 90000).              *)
(***************************************************************************)
EXTENDS Integers, Sequences, FiniteSets, TLC

VARIABLES
  pc,          \* phase of the run: parse, normalized, built, sampled, register
  config,      \* Config: the filters of the graph assembler
  data,        \* the parsed rows, in input order
  normalizer,  \* SkillNormalizer: dictionary, alias map, counters
  graph,       \* GraphBuilder: the assembled graph
  subgraph,    \* GraphBuilder returned by the sampler
  sampled,     \* the sampled job ids
  ret,         \* value returned by the last _register_skill call
  calls,       \* the mentions passed to _register_skill so far
  looked,      \* the label passed to the last get_skill_id call
  parser,      \* DataParser: the row counters and the bad-row records
  input,       \* the rows of the input file, as read_csv delivers them
  sampler,     \* the sampler: its inputs, intermediate results and report
  rng          \* the state of the random module's generator

vars == <<pc, config, data, normalizer, graph, subgraph, sampled, ret, calls,
          looked, parser, input, sampler, rng>>

(***************************************************************************)
(* Characters and character classes.                                       *)
(***************************************************************************)
UpperLetters == <<"A","B","C","D","E","F","G","H","I","J","K","L","M",
                  "N","O","P","Q","R","S","T","U","V","W","X","Y","Z">>

LowerLetters == <<"a","b","c","d","e","f","g","h","i","j","k","l","m",
                  "n","o","p","q","r","s","t","u","v","w","x","y","z">>

Digits == {"0","1","2","3","4","5","6","7","8","9"}

Whitespace == {" ", "\t"}

\* Non-ASCII characters of the model: en dash, em dash and minus sign.
EnDash == "<en-dash>"
EmDash == "<em-dash>"
MinusSign == "<minus>"

NonAscii == {EnDash, EmDash, MinusSign}

IsUpper(c) == \E i \in 1..26 : UpperLetters[i] = c

IsLower(c) == \E i \in 1..26 : LowerLetters[i] = c

\* str.lower() on one character
LowerChar(c) ==
  IF IsUpper(c) THEN LowerLetters[CHOOSE i \in 1..26 : UpperLetters[i] = c] ELSE c

\* str.upper() on one character
UpperChar(c) ==
  IF IsLower(c) THEN UpperLetters[CHOOSE i \in 1..26 : LowerLetters[i] = c] ELSE c

\* the regex class \w
IsWord(c) == IsUpper(c) \/ IsLower(c) \/ c \in Digits \/ c = "_"

\* the regex class [a-z0-9]
IsSlugChar(c) == IsLower(c) \/ c \in Digits

(***************************************************************************)
(* String helpers: the Python string and regex primitives the code uses.   *)
(***************************************************************************)
\* a for loop over lo..hi: acc = Op(acc, i) for i = lo, ..., hi. The range
\* is halved and acc is compared with itself so that TLC computes it before
\* descending: both only keep the nesting of the evaluation shallow.
RECURSIVE Iterate(_, _, _, _)
Iterate(Op(_, _), acc, lo, hi) ==
  IF lo > hi \/ acc # acc THEN acc
  ELSE IF lo = hi THEN Op(acc, lo)
  ELSE LET mid == (lo + hi) \div 2 IN
       Iterate(Op, Iterate(Op, acc, lo, mid), mid + 1, hi)

\* a left-to-right scan of s from position i: Step(out, k) gives the text
\* after the match or character at position k and the position after it
Scan(s, Step(_, _), i) ==
  Iterate(LAMBDA acc, k : IF k < acc.next THEN acc ELSE Step(acc.out, k),
          [out |-> <<>>, next |-> i], i, Len(s)).out

Lower(s) == [i \in 1..Len(s) |-> LowerChar(s[i])]

RECURSIVE LStripSet(_, _)
LStripSet(s, cs) ==
  IF s = <<>> THEN <<>>
  ELSE IF Head(s) \in cs THEN LStripSet(Tail(s), cs) ELSE s

RECURSIVE RStripSet(_, _)
RStripSet(s, cs) ==
  IF s = <<>> THEN <<>>
  ELSE IF s[Len(s)] \in cs THEN RStripSet(SubSeq(s, 1, Len(s) - 1), cs) ELSE s

\* str.strip(chars)
StripSet(s, cs) == RStripSet(LStripSet(s, cs), cs)

\* str.strip()
Strip(s) == StripSet(s, Whitespace)

\* index of the first character at or after i that is not in cs (Len(s)+1 if none)
RECURSIVE SkipSet(_, _, _)
SkipSet(s, cs, i) ==
  IF i > Len(s) THEN i
  ELSE IF s[i] \in cs THEN SkipSet(s, cs, i + 1) ELSE i

\* re.sub(r'[cs]+', rep, s): every maximal run of characters of cs becomes rep
SubRuns(s, cs, rep, i) ==
  Scan(s, LAMBDA out, k :
            IF s[k] \in cs
            THEN [out |-> out \o rep, next |-> SkipSet(s, cs, k)]
            ELSE [out |-> Append(out, s[k]), next |-> k + 1],
       i)

\* re.sub(r'\s+', ' ', s)
CollapseWhitespace(s) == SubRuns(s, Whitespace, <<" ">>, 1)

\* re.sub(r'\s*c\s*', '-', s)
SubAround(s, c, i) ==
  Scan(s, LAMBDA out, k :
            LET j == SkipSet(s, Whitespace, k) IN
            IF j <= Len(s) /\ s[j] = c
            THEN [out |-> Append(out, "-"),
                  next |-> SkipSet(s, Whitespace, j + 1)]
            ELSE [out |-> Append(out, s[k]), next |-> k + 1],
       i)

\* the regex assertion \b between positions i-1 and i of s
WordBoundary(s, i) ==
  LET before == i > 1 /\ i - 1 <= Len(s) /\ IsWord(s[i - 1])
      after == i >= 1 /\ i <= Len(s) /\ IsWord(s[i])
  IN before # after

\* s has the literal lit at position i
HasAt(s, lit, i) ==
  /\ i + Len(lit) - 1 <= Len(s)
  /\ \A k \in 1..Len(lit) : s[i + k - 1] = lit[k]

\* re.sub(r'\blit\b', rep, s)
SubBounded(s, lit, rep, i) ==
  Scan(s, LAMBDA out, k :
            IF HasAt(s, lit, k) /\ WordBoundary(s, k)
                 /\ WordBoundary(s, k + Len(lit))
            THEN [out |-> out \o rep, next |-> k + Len(lit)]
            ELSE [out |-> Append(out, s[k]), next |-> k + 1],
       i)

\* s.replace(c, '-') for the Unicode dashes
ReplaceDashes(s) ==
  [i \in 1..Len(s) |-> IF s[i] \in {EnDash, EmDash, MinusSign} THEN "-" ELSE s[i]]

\* text.encode('ascii', 'ignore').decode('ascii')
DropNonAscii(s) == SelectSeq(s, LAMBDA c : c \notin NonAscii)

\* re.sub(r'[^a-z0-9]+', '-', s)
SubNonSlug(s, i) ==
  Scan(s, LAMBDA out, k :
            IF ~IsSlugChar(s[k])
            THEN [out |-> Append(out, "-"),
                  next |-> CHOOSE j \in k..(Len(s) + 1) :
                             /\ \A m \in k..(j - 1) : ~IsSlugChar(s[m])
                             /\ (j = Len(s) + 1 \/ IsSlugChar(s[j]))]
            ELSE [out |-> Append(out, s[k]), next |-> k + 1],
       i)

TrailingPunctuation == {".", ",", ":", ";", "!", "?"}

NumericOnlyChars == Digits \cup Whitespace \cup {".", ",", "-"}

\* utils.slugify
slugify(text) ==
  IF text = <<>> THEN <<>>
  ELSE LET t1 == Lower(text)
           t2 == DropNonAscii(t1)
           t3 == SubNonSlug(t2, 1)
           t4 == StripSet(t3, {"-"})
       IN SubRuns(t4, {"-"}, <<"-">>, 1)

\* SkillNormalizer._normalize
Normalize(raw_label) ==
  LET s0 == Strip(raw_label) IN
  IF s0 = <<>> THEN <<>>
  ELSE LET s1 == Lower(s0)
           s2 == RStripSet(s1, TrailingPunctuation)
           s3 == CollapseWhitespace(s2)
           s4 == ReplaceDashes(s3)
           s5 == SubAround(s4, "/", 1)
           s6 == SubAround(s5, "-", 1)
           s7 == SubBounded(s6, <<"&">>, <<" ","a","n","d"," ">>, 1)
           s8 == SubBounded(s7, <<"w","/">>, <<"w","i","t","h"," ">>, 1)
           s9 == SubBounded(s8, <<"w","/","o">>,
                            <<"w","i","t","h","o","u","t"," ">>, 1)
           s10 == CollapseWhitespace(s9)
       IN Strip(s10)

\* str.split(): the maximal runs of non-whitespace characters
RECURSIVE SplitWords(_)
SplitWords(s) ==
  LET t == LStripSet(s, Whitespace) IN
  IF t = <<>> THEN <<>>
  ELSE LET e == CHOOSE k \in 1..Len(t) :
                  /\ \A m \in 1..k : t[m] \notin Whitespace
                  /\ (k = Len(t) \/ t[k + 1] \in Whitespace)
       IN <<SubSeq(t, 1, e)>> \o SplitWords(SubSeq(t, e + 1, Len(t)))

\* str.isupper()
IsUpperWord(w) ==
  /\ \E i \in 1..Len(w) : IsUpper(w[i])
  /\ \A i \in 1..Len(w) : ~IsLower(w[i])

\* str.capitalize()
Capitalize(w) ==
  [i \in 1..Len(w) |-> IF i = 1 THEN UpperChar(w[i]) ELSE LowerChar(w[i])]

AcronymMaxLen == 5

RECURSIVE JoinWords(_)
JoinWords(ws) ==
  IF ws = <<>> THEN <<>>
  ELSE IF Len(ws) = 1 THEN ws[1]
  ELSE ws[1] \o <<" ">> \o JoinWords(Tail(ws))

\* mutant: every word is capitalized, acronyms included
ToTitleCase_NoAcronyms(text) ==
  LET words == SplitWords(text)
  IN JoinWords([i \in 1..Len(words) |-> Capitalize(words[i])])

\* SkillNormalizer._to_title_case
ToTitleCase(text) ==
  LET words == SplitWords(text)
      result == [i \in 1..Len(words) |->
                   IF IsUpperWord(words[i]) /\ Len(words[i]) <= AcronymMaxLen
                   THEN words[i] ELSE Capitalize(words[i])]
  IN JoinWords(result)

(***************************************************************************)
(* Skill normalizer (graph_builder/normalizer.py).                         *)
(***************************************************************************)
\* Python's None where a canonical key or a node id is expected
None == <<"<None>">>

\* a 'skill' value that is not a string (a number, a list, null)
NotAString == <<"<not-a-str>">>

MinSkillLen == 2

MaxSkillLen == 100

SKILL_PREFIX == <<"s","k","i","l","l",":">>

JOB_PREFIX == <<"j","o","b",":">>

CAT_PREFIX == <<"c","a","t",":">>

\* dict[k] = v
Put(d, k, v) == [x \in (DOMAIN d) \cup {k} |-> IF x = k THEN v ELSE d[x]]

EmptyDict == [x \in {} |-> 0]

Max(a, b) == IF a >= b THEN a ELSE b

\* SkillNormalizer.__init__
NewNormalizer ==
  [skill_dictionary |-> EmptyDict,
   alias_map |-> EmptyDict,
   raw_skill_count |-> 0,
   normalized_skill_count |-> 0]

\* mutant: the raw counter is not advanced
CountRaw_Skipped(norm) == norm

\* _register_skill: self.raw_skill_count += 1
CountRaw(norm) == [norm EXCEPT !.raw_skill_count = @ + 1]

\* mutant: the normalized text is recorded as the alias
AliasForm_Normalized(raw_label) == Normalize(raw_label)

\* _register_skill: entry['aliases'].add(raw_label), raw_label being the
\* stripped label
AliasForm(raw_label) == raw_label

\* _register_skill: the rejection tests on the normalized text
\* mutant: no upper limit on the length
Rejected_NoMaxLength(normalized) ==
  \/ normalized = <<>>
  \/ Len(normalized) < MinSkillLen
  \/ \A i \in 1..Len(normalized) : normalized[i] \in NumericOnlyChars

Rejected(normalized) ==
  \/ normalized = <<>>
  \/ Len(normalized) < MinSkillLen
  \/ Len(normalized) > MaxSkillLen
  \/ \A i \in 1..Len(normalized) : normalized[i] \in NumericOnlyChars

\* _register_skill: the dictionary and alias-map update of an accepted label
RegisterAccepted(norm, raw_label, canonical_key, skill_entry) ==
  LET dict0 == norm.skill_dictionary
      dict1 == IF canonical_key \in DOMAIN dict0 THEN dict0
               ELSE Put(dict0, canonical_key,
                        [canonical_key |-> canonical_key,
                         canonical_label |-> ToTitleCase(raw_label),
                         aliases |-> {},
                         occurrence_count |-> 0,
                         max_similarity |-> 0,
                         sum_similarity |-> 0,
                         buckets |-> {}])
      old == dict1[canonical_key]
      similarity == skill_entry.mapping_similarity
      bucket == skill_entry.bucket
      new == [old EXCEPT
                !.aliases = @ \cup {AliasForm(raw_label)},
                !.occurrence_count = @ + 1,
                !.max_similarity = Max(@, similarity),
                !.sum_similarity = @ + similarity,
                !.buckets = IF bucket # "" THEN @ \cup {bucket} ELSE @]
  IN [norm EXCEPT
        !.skill_dictionary = Put(dict1, canonical_key, new),
        !.alias_map = Put(@, raw_label, canonical_key)]

\* SkillNormalizer._register_skill: the normalizer after the call and the
\* value returned
RegisterSkill(norm, skill_entry) ==
  LET raw0 == skill_entry.skill IN
  IF raw0 = <<>> \/ raw0 = NotAString THEN [norm |-> norm, ret |-> None]
  ELSE LET raw_label == Strip(raw0) IN
       IF raw_label = <<>> THEN [norm |-> norm, ret |-> None]
       ELSE LET counted == CountRaw(norm)
                normalized == Normalize(raw_label)
                canonical_key == slugify(normalized)
            IN IF Rejected(normalized) \/ canonical_key = <<>>
               THEN [norm |-> counted, ret |-> None]
               ELSE [norm |-> RegisterAccepted(counted, raw_label,
                                               canonical_key, skill_entry),
                     ret |-> canonical_key]

\* SkillNormalizer.get_skill_id: the answer for a label that is not an alias,
\* from its canonical key
ResolveKey(norm, canonical_key) ==
  IF canonical_key # <<>> /\ canonical_key \in DOMAIN norm.skill_dictionary
  THEN SKILL_PREFIX \o canonical_key
  ELSE None

\* SkillNormalizer.get_skill_id: the answer for a stripped label
ResolveLabel(norm, raw_label) ==
  IF raw_label \in DOMAIN norm.alias_map /\ norm.alias_map[raw_label] # <<>>
  THEN SKILL_PREFIX \o norm.alias_map[raw_label]
  ELSE ResolveKey(norm, slugify(Normalize(raw_label)))

\* SkillNormalizer.get_skill_id
GetSkillId(norm, raw0) ==
  IF raw0 = <<>> THEN None ELSE ResolveLabel(norm, Strip(raw0))

\* mutant: the key found by on-the-fly canonicalization is cached in the
\* alias map
AfterGetSkillId_Cached(norm, raw0) ==
  LET raw_label == Strip(raw0)
      canonical_key == slugify(Normalize(raw_label))
  IN IF raw0 # <<>> /\ raw_label \notin DOMAIN norm.alias_map
          /\ canonical_key \in DOMAIN norm.skill_dictionary
     THEN [norm EXCEPT !.alias_map = Put(@, raw_label, canonical_key)]
     ELSE norm

\* SkillNormalizer.get_skill_id: the normalizer after the call (the method
\* reads alias_map with .get and skill_dictionary with 'in', and assigns to
\* no attribute)
AfterGetSkillId(norm, raw0) == norm

\* SkillNormalizer._dedup_ratio, in units of 1e-4
DedupRatio(norm) ==
  IF norm.raw_skill_count = 0 THEN 0
  ELSE 10000 - ((Cardinality(DOMAIN norm.skill_dictionary) * 10000)
                  \div norm.raw_skill_count)

\* SkillNormalizer.process_all, pass 1: every mention of every row, in order
RECURSIVE RegisterMentions(_, _)
RegisterMentions(norm, skills) ==
  IF skills = <<>> THEN norm
  ELSE RegisterMentions(RegisterSkill(norm, Head(skills)).norm, Tail(skills))

RegisterRows(norm, rows) ==
  Iterate(LAMBDA acc, i : RegisterMentions(acc, rows[i].skills),
          norm, 1, Len(rows))

(***************************************************************************)
(* Graph assembly (graph_builder/graph.py).                                *)
(***************************************************************************)
\* GraphBuilder.__init__; nodes is the dict of nodes by id, and job_order
\* the ids of its job nodes in the insertion order of the dict (the part of
\* the dict order that the samplers read)
NewGraph ==
  [nodes |-> EmptyDict,
   job_order |-> <<>>,
   edges |-> <<>>,
   categories_seen |-> {},
   jobs_with_skills |-> {},
   jobs_with_category |-> {},
   skill_edges_created |-> 0,
   category_edges_created |-> 0,
   skills_filtered_similarity |-> 0,
   skills_filtered_bucket |-> 0]

\* round(similarity, 4) on a value in units of 1e-5 (no input is a tie)
Round4(x) == ((x + 5) \div 10) * 10

\* GraphBuilder._create_job_node (the descriptive metadata is carried over
\* unchanged and is left out)
CreateJobNode(row) ==
  [id |-> JOB_PREFIX \o row.job_id,
   kind |-> "job",
   skill_count |-> Len(row.skills)]

\* GraphBuilder._ensure_category: the category id, or None
CategoryId(row) ==
  LET cat_name0 == IF row.assigned_occupation_group # <<>>
                   THEN row.assigned_occupation_group ELSE row.group_name
  IN IF cat_name0 = <<>> \/ Strip(cat_name0) = <<>> THEN None
     ELSE CAT_PREFIX \o slugify(Lower(Strip(cat_name0)))

\* GraphBuilder._ensure_category: the graph after the call
EnsureCategory(g, row) ==
  LET cat_id == CategoryId(row)
      cat_name0 == IF row.assigned_occupation_group # <<>>
                   THEN row.assigned_occupation_group ELSE row.group_name
  IN IF cat_id = None \/ cat_id \in g.categories_seen THEN g
     ELSE [g EXCEPT
             !.nodes = Put(@, cat_id, [id |-> cat_id,
                                       label |-> Strip(cat_name0),
                                       kind |-> "category",
                                       job_count |-> 0]),
             !.categories_seen = @ \cup {cat_id}]

\* insertion of x into a list sorted by mapping_similarity descending, after
\* every entry whose similarity is not smaller (stable)
RECURSIVE InsertDescending(_, _)
InsertDescending(sorted, x) ==
  IF sorted = <<>> THEN <<x>>
  ELSE IF Head(sorted).mapping_similarity >= x.mapping_similarity
       THEN <<Head(sorted)>> \o InsertDescending(Tail(sorted), x)
       ELSE <<x>> \o sorted

RECURSIVE SortFrom(_, _)
SortFrom(sorted, rest) ==
  IF rest = <<>> THEN sorted
  ELSE SortFrom(InsertDescending(sorted, Head(rest)), Tail(rest))

\* mutant: the mentions are left in input order
SortBySimilarity_Unsorted(skills) == skills

\* sorted(skills, key=mapping_similarity, reverse=True)
SortBySimilarity(skills) == SortFrom(<<>>, skills)

\* mutant: the loop ends one edge late
TopKReached_OffByOne(cfg, edges_created) ==
  cfg.top_k_skills > 0 /\ edges_created > cfg.top_k_skills

\* _create_skill_edges: the top_k test that ends the loop
TopKReached(cfg, edges_created) ==
  cfg.top_k_skills > 0 /\ edges_created >= cfg.top_k_skills

\* _create_skill_edges: the loop over the sorted mentions; acc carries the
\* edges, skills_added and the two filter counters
RECURSIVE SkillEdgeLoop(_, _, _, _, _)

\* _create_skill_edges: the edge appended for one mention
SkillEdge(job_id, skill_entry, skill_id) ==
  [source |-> job_id,
   target |-> skill_id,
   rel |-> "REQUIRES_SKILL",
   bucket |-> skill_entry.bucket,
   mapping_similarity |-> Round4(skill_entry.mapping_similarity),
   weight |-> Round4(skill_entry.mapping_similarity)]

\* _create_skill_edges: the end of one iteration that appended an edge
AfterEdge(acc1, job_id, rest, norm, cfg) ==
  IF TopKReached(cfg, Len(acc1.edges)) THEN acc1
  ELSE SkillEdgeLoop(acc1, job_id, rest, norm, cfg)

\* _create_skill_edges: one iteration, skill_id being the answer of
\* get_skill_id for the mention
SkillEdgeStep(acc, job_id, skill_entry, skill_id, rest, norm, cfg) ==
  IF cfg.buckets # {} /\ skill_entry.bucket \notin cfg.buckets
  THEN SkillEdgeLoop([acc EXCEPT !.filtered_bucket = @ + 1],
                     job_id, rest, norm, cfg)
  ELSE IF skill_entry.mapping_similarity < cfg.min_similarity
  THEN SkillEdgeLoop([acc EXCEPT !.filtered_similarity = @ + 1],
                     job_id, rest, norm, cfg)
  ELSE IF skill_id = None \/ skill_id \in acc.skills_added
  THEN SkillEdgeLoop(acc, job_id, rest, norm, cfg)
  ELSE AfterEdge([acc EXCEPT
                    !.edges = Append(@, SkillEdge(job_id, skill_entry, skill_id)),
                    !.skills_added = @ \cup {skill_id}],
                 job_id, rest, norm, cfg)

SkillEdgeLoop(acc, job_id, skills_sorted, norm, cfg) ==
  IF skills_sorted = <<>> THEN acc
  ELSE SkillEdgeStep(acc, job_id, Head(skills_sorted),
                     GetSkillId(norm, Head(skills_sorted).skill),
                     Tail(skills_sorted), norm, cfg)

\* _create_skill_edges: the counters and the edges after the loop
AddSkillEdges(g, job_id, acc) ==
  [g EXCEPT
     !.edges = @ \o acc.edges,
     !.skills_filtered_bucket = @ + acc.filtered_bucket,
     !.skills_filtered_similarity = @ + acc.filtered_similarity,
     !.jobs_with_skills = IF Len(acc.edges) > 0 THEN @ \cup {job_id} ELSE @,
     !.skill_edges_created = @ + Len(acc.edges)]

\* GraphBuilder._create_skill_edges
CreateSkillEdges(g, job_id, row, norm, cfg) ==
  IF row.skills = <<>> THEN g
  ELSE AddSkillEdges(g, job_id,
         SkillEdgeLoop([edges |-> <<>>, skills_added |-> {},
                        filtered_bucket |-> 0, filtered_similarity |-> 0],
                       job_id, SortBySimilarity(row.skills), norm, cfg))

\* GraphBuilder._process_row
ProcessRow(g, row, norm, cfg) ==
  LET job_id == JOB_PREFIX \o row.job_id
      g1 == [g EXCEPT !.nodes = Put(@, job_id, CreateJobNode(row)),
                      !.job_order = IF job_id \in DOMAIN g.nodes THEN @
                                    ELSE Append(@, job_id)]
      category_id == CategoryId(row)
      g2 == EnsureCategory(g1, row)
      g3 == IF category_id = None THEN g2
            ELSE [g2 EXCEPT
                    !.edges = Append(@, [source |-> job_id,
                                         target |-> category_id,
                                         rel |-> "IN_CATEGORY"]),
                    !.jobs_with_category = @ \cup {job_id},
                    !.category_edges_created = @ + 1]
  IN CreateSkillEdges(g3, job_id, row, norm, cfg)

\* GraphBuilder.build: the loop over the rows
ProcessRows(g, rows, norm, cfg) ==
  Iterate(LAMBDA acc, i : ProcessRow(acc, rows[i], norm, cfg), g, 1, Len(rows))

\* the targets of the edges of one relation
EdgeTargets(edges, rel) ==
  {edges[i].target : i \in {k \in 1..Len(edges) : edges[k].rel = rel}}

\* the number of edges of one relation with a given target
CountEdgesTo(edges, rel, target) ==
  Cardinality({i \in 1..Len(edges) :
                 edges[i].rel = rel /\ edges[i].target = target})

\* mutant: no skill node is added
AddSkillNodes_None(g, norm, cfg) == g

\* mutant: every dictionary entry becomes a node, with or without edges
AddSkillNodes_All(g, norm, cfg) ==
  LET keys == DOMAIN norm.skill_dictionary
      ids == {SKILL_PREFIX \o key : key \in keys}
      KeyOf(id) == CHOOSE key \in keys : SKILL_PREFIX \o key = id
  IN [g EXCEPT !.nodes = [id \in (DOMAIN @) \cup ids |->
                            IF id \in ids
                            THEN [id |-> id, kind |-> "skill",
                                  canonical_key |-> KeyOf(id)]
                            ELSE @[id]]]

\* GraphBuilder._add_skill_nodes (the aliases attribute is kept as the set
\* that the code joins with '|')
AddSkillNodes(g, norm, cfg) ==
  LET skills_with_edges == EdgeTargets(g.edges, "REQUIRES_SKILL")
      keys == {key \in DOMAIN norm.skill_dictionary :
                 (SKILL_PREFIX \o key) \in skills_with_edges}
      ids == {SKILL_PREFIX \o key : key \in keys}
      KeyOf(id) == CHOOSE key \in keys : SKILL_PREFIX \o key = id
      SkillNode(key) ==
        LET entry == norm.skill_dictionary[key] IN
        [id |-> SKILL_PREFIX \o key,
         label |-> entry.canonical_label,
         kind |-> "skill",
         canonical_key |-> key,
         aliases |-> IF cfg.include_aliases THEN entry.aliases ELSE {},
         job_count |-> entry.occurrence_count,
         max_similarity |-> Round4(entry.max_similarity),
         avg_similarity |-> IF entry.occurrence_count > 0
                            THEN Round4(entry.sum_similarity
                                          \div entry.occurrence_count)
                            ELSE 0]
  IN [g EXCEPT !.nodes = [id \in (DOMAIN @) \cup ids |->
                            IF id \in ids THEN SkillNode(KeyOf(id)) ELSE @[id]]]

\* mutant: the counts are left as created
UpdateCategoryCounts_Skipped(g) == g

\* GraphBuilder._update_category_counts
UpdateCategoryCounts(g) ==
  LET counted == EdgeTargets(g.edges, "IN_CATEGORY") IN
  [g EXCEPT !.nodes = [id \in DOMAIN @ |->
                         IF id \in counted
                         THEN [@[id] EXCEPT !.job_count =
                                 CountEdgesTo(g.edges, "IN_CATEGORY", id)]
                         ELSE @[id]]]

\* GraphBuilder.build
BuildGraph(rows, norm, cfg) ==
  UpdateCategoryCounts(
    AddSkillNodes(ProcessRows(NewGraph, rows, norm, cfg), norm, cfg))

(***************************************************************************)
(* Subgraph extraction (graph_builder/sampler.py).                         *)
(***************************************************************************)
\* mutant: every edge of the original is copied
FilterEdges_All(edges, sources) == edges

\* _build_subgraph: the copies of the edges whose source is a sampled job
FilterEdges(edges, sources) ==
  SelectSeq(edges, LAMBDA edge : /\ edge.source \in sources
                                 /\ edge.rel \in {"REQUIRES_SKILL", "IN_CATEGORY"})

\* the insertion order of nodes copied while iterating over a set of ids:
\* Python does not fix the iteration order of a set of strings, and no
\* order is recorded
Unordered == <<<<"<unordered>">>>>

\* BaseSampler._build_subgraph
BuildSubgraph(original, sampled_job_ids) ==
  LET job_nodes == sampled_job_ids \cap DOMAIN original.nodes
      sub_edges == FilterEdges(original.edges, sampled_job_ids)
      connected_skills == EdgeTargets(sub_edges, "REQUIRES_SKILL")
      connected_categories == EdgeTargets(sub_edges, "IN_CATEGORY")
      copied == job_nodes
                  \cup (connected_skills \cap DOMAIN original.nodes)
                  \cup (connected_categories \cap DOMAIN original.nodes)
  IN [NewGraph EXCEPT
        !.nodes = [id \in copied |-> original.nodes[id]],
        !.job_order = IF job_nodes = {} THEN <<>> ELSE Unordered,
        !.edges = sub_edges,
        !.jobs_with_skills = sampled_job_ids \cap original.jobs_with_skills,
        !.jobs_with_category = sampled_job_ids \cap original.jobs_with_category,
        !.categories_seen = connected_categories]

\* the dict object that holds a node (key: its id) or an edge (key: its
\* position in the edge list) of the original graph
OriginalObject(key) == [owner |-> "original", key |-> key]

\* dict.copy() returning the dict itself
Copy_SameObject(object) == object

\* dict.copy(): a new dict object with the items of the given one; every
\* value of a node or an edge is a string or a number, so the new object
\* shares no mutable value with the old one
Copy(object) == [owner |-> "subgraph", key |-> object.key]

\* the positions in the original edge list of the edges that
\* _build_subgraph copies, in order
CopiedEdges(original, sampled_job_ids) ==
  LET S == {i \in 1..Len(original.edges) :
              /\ original.edges[i].source \in sampled_job_ids
              /\ original.edges[i].rel \in {"REQUIRES_SKILL", "IN_CATEGORY"}}
  IN [k \in 1..Cardinality(S) |->
        CHOOSE i \in S : Cardinality({j \in S : j < i}) = k - 1]

\* _build_subgraph: the dict objects held by the nodes and the edges of the
\* subgraph it returns
SubgraphObjects(original, sampled_job_ids) ==
  LET sub == BuildSubgraph(original, sampled_job_ids)
      copied == CopiedEdges(original, sampled_job_ids)
  IN [nodes |-> [id \in DOMAIN sub.nodes |-> Copy(OriginalObject(id))],
      edges |-> [k \in 1..Len(copied) |-> Copy(OriginalObject(copied[k]))]]

(***************************************************************************)
(* Data parser (graph_builder/parser.py).                                  *)
(***************************************************************************)
\* DataParser.__init__
NewParser ==
  [total_rows |-> 0,
   parsed_rows |-> 0,
   bad_rows |-> <<>>]

\* str(k) for a natural number k
RECURSIVE ToDigits(_)
ToDigits(k) ==
  LET d == <<"0","1","2","3","4","5","6","7","8","9">>[(k % 10) + 1] IN
  IF k < 10 THEN <<d>> ELSE Append(ToDigits(k \div 10), d)

\* the outcome of a call: a returned value, or a raised exception with its
\* message
Returned(value) == [raised |-> FALSE, value |-> value, error |-> ""]

Raised(error) == [raised |-> TRUE, value |-> <<>>, error |-> error]

\* The values json.loads returns: None, str, numbers (in units of 1e-5),
\* list and dict (a function from its keys to values).
JNull == [type |-> "null"]

JString(text) == [type |-> "string", text |-> text]

JNumber(number) == [type |-> "number", number |-> number]

JArray(items) == [type |-> "array", items |-> items]

JObject(fields) == [type |-> "object", fields |-> fields]

\* json.loads failing on a text that is not JSON
JSONDecodeError == [type |-> "JSONDecodeError"]

\* The cells of a row as read_csv(dtype=str, na_values=...) delivers them:
\* NaN for an empty or NA cell, a str otherwise.  The str of the skills
\* column is given by whether it is whitespace only and by what json.loads
\* makes of it.
NaN == [nan |-> TRUE]

TextCell(text) == [nan |-> FALSE, text |-> text]

BlankJsonCell == [nan |-> FALSE, blank |-> TRUE, loads |-> JSONDecodeError]

JsonCell(loads) == [nan |-> FALSE, blank |-> FALSE, loads |-> loads]

\* messages of the exceptions
AmbiguousTruthValue == "The truth value of an array with more than one element is ambiguous"

InvalidSkillsJson == "Invalid skills JSON"

\* utils.safe_str on a cell: pd.isna(NaN) is true, a str is stripped
SafeStrCell(cell) == IF cell.nan THEN <<>> ELSE Strip(cell.text)

\* utils.safe_str on a value of a parsed JSON document (None, a str or a
\* list of two or more items): pd.isna of such a list is an array, and its
\* truth value raises ValueError, which safe_str does not catch
SafeStr(val) ==
  CASE val.type = "null" -> Returned(<<>>)
    [] val.type = "string" -> Returned(Strip(val.text))
    [] val.type = "array" /\ Len(val.items) >= 2 -> Raised(AmbiguousTruthValue)

\* float(text) for a text of decimal digits, in units of 1e-5
RECURSIVE DigitsValue(_)
DigitsValue(text) ==
  IF text = <<>> THEN 0
  ELSE 10 * DigitsValue(SubSeq(text, 1, Len(text) - 1))
       + (CHOOSE d \in 0..9 : ToDigits(d) = <<text[Len(text)]>>) * 100000

\* utils.safe_float on a value of a parsed JSON document (None, a number, a
\* str of digits or of letters, a list of two or more items), default 0.0
SafeFloat(val) ==
  CASE val.type = "null" -> Returned(0)
    [] val.type = "number" -> Returned(val.number)
    [] val.type = "string" ->
         IF Strip(val.text) # <<>> /\ \A i \in 1..Len(Strip(val.text)) :
                                       Strip(val.text)[i] \in Digits
         THEN Returned(DigitsValue(Strip(val.text)))
         ELSE Returned(0)
    [] val.type = "array" /\ Len(val.items) >= 2 -> Raised(AmbiguousTruthValue)

\* dict.get(key, default)
Field(entry, key, default) ==
  IF key \in DOMAIN entry.fields THEN entry.fields[key] ELSE default

\* DataParser._parse_skills_json: the loop over the entries of the list
ValidSkills(skills) ==
  Iterate(LAMBDA valid_skills, i :
            IF valid_skills.raised \/ skills[i].type # "object"
            THEN valid_skills
            ELSE LET skill_label ==
                       SafeStr(Field(skills[i], "skill", JString(<<>>)))
                     bucket == SafeStr(Field(skills[i], "bucket", JString(<<>>)))
                     mapping_similarity ==
                       SafeFloat(Field(skills[i], "mapping_similarity", JNumber(0)))
                 IN IF skill_label.raised THEN skill_label
                    ELSE IF skill_label.value = <<>> THEN valid_skills
                    ELSE IF bucket.raised THEN bucket
                    ELSE IF mapping_similarity.raised THEN mapping_similarity
                    ELSE Returned(Append(valid_skills.value,
                                         [skill |-> skill_label.value,
                                          bucket |-> bucket.value,
                                          mapping_similarity |->
                                            mapping_similarity.value])),
          Returned(<<>>), 1, Len(skills))

\* DataParser._parse_skills_json on the skills cell of a row
ParseSkillsJson(cell) ==
  IF cell.nan \/ cell.blank THEN Returned(<<>>)
  ELSE IF cell.loads = JSONDecodeError THEN Raised(InvalidSkillsJson)
  ELSE IF cell.loads.type # "array" THEN Returned(<<>>)
  ELSE ValidSkills(cell.loads.items)

\* DataParser._get_job_id with job_id_column = 'auto': the text that is
\* hashed stands for its md5 digest (no two texts of a run share a digest)
GetJobId(row, row_idx) ==
  <<"m","d","5",":">> \o SafeStrCell(row["Job Title"]) \o <<"|">>
    \o SafeStrCell(row["Company Name"]) \o <<"|">>
    \o SafeStrCell(row["District"]) \o <<"|">> \o ToDigits(row_idx)

\* DataParser._parse_row
ParseOneRow(row, row_idx) ==
  LET skills == ParseSkillsJson(row["importance_standardised"])
      category0 == SafeStrCell(row["Assigned_Occupation_Group"])
      category == IF category0 = <<>> THEN SafeStrCell(row["Group"])
                  ELSE category0
  IN IF skills.raised THEN skills
     ELSE Returned([job_id |-> GetJobId(row, row_idx),
                    job_title |-> SafeStrCell(row["Job Title"]),
                    company_name |-> SafeStrCell(row["Company Name"]),
                    group_name |-> SafeStrCell(row["Group"]),
                    assigned_occupation_group |-> category,
                    skills |-> skills.value,
                    row_idx |-> row_idx])

\* DataParser._log_bad_row
LogBadRow(p, row_idx, row, error) ==
  [p EXCEPT !.bad_rows =
     Append(@, [row_idx |-> row_idx,
                job_title |-> SafeStrCell(row["Job Title"]),
                company_name |-> SafeStrCell(row["Company Name"]),
                error |-> error])]

\* DataParser._parse_csv: the body of the loop for the row at position
\* row_idx of the file; the parser and the rows yielded so far afterwards
ParseCsvRow(p, rows, row, row_idx) ==
  LET counted == [p EXCEPT !.total_rows = @ + 1]
      parsed == ParseOneRow(row, row_idx)
  IN IF parsed.raised
     THEN [parser |-> LogBadRow(counted, row_idx, row, parsed.error),
           data |-> rows]
     ELSE [parser |-> [counted EXCEPT !.parsed_rows = @ + 1],
           data |-> Append(rows, parsed.value)]

(***************************************************************************)
(* Samplers (graph_builder/sampler.py).                                    *)
(***************************************************************************)
\* StatisticalSampler.__init__, PerformanceSampler.__init__: no call of
\* sample has been made
NewSampler == [runs |-> <<>>]

\* Python floats are modelled as exact fractions [num, den] in lowest terms
\* with den > 0
RECURSIVE GCD(_, _)
GCD(a, b) == IF b = 0 THEN a ELSE GCD(b, a % b)

Abs(x) == IF x < 0 THEN -x ELSE x

Frac(num, den) ==
  LET g == GCD(Abs(num), den) IN [num |-> num \div g, den |-> den \div g]

FracMul(x, y) ==
  LET g1 == GCD(Abs(x.num), y.den)
      g2 == GCD(Abs(y.num), x.den)
  IN Frac((x.num \div g1) * (y.num \div g2), (x.den \div g2) * (y.den \div g1))

\* x / y for y > 0
FracDiv(x, y) == FracMul(x, [num |-> y.den, den |-> y.num])

FracAdd(x, y) == Frac(x.num * y.den + y.num * x.den, x.den * y.den)

FracSub(x, y) == FracAdd(x, [num |-> -y.num, den |-> y.den])

FromInt(k) == [num |-> k, den |-> 1]

\* int(math.ceil(x))
Ceil(x) == -((-x.num) \div x.den)

\* int(x): truncation of a non-negative value
Trunc(x) == x.num \div x.den

\* round(x, 2) of a non-negative value, in units of 1e-2
Round2(x) == (200 * x.num + x.den) \div (2 * x.den)

\* Python floats (IEEE 754 binary64) where the rounding of an operation
\* decides an integer result: a positive float is its 53 significand bits,
\* most significant first, and the exponent of the last of them, its value
\* being (the integer of the bits) * 2^exp; 0.0 has no bits
MantissaBits == 53

FloatZero == [bits |-> <<>>, exp |-> 0]

\* the binary digits of a non-negative integer, most significant first
RECURSIVE Binary(_)
Binary(c) == IF c = 0 THEN <<>> ELSE Append(Binary(c \div 2), c % 2)

\* the integer of a list of binary digits
RECURSIVE IntOf(_)
IntOf(bits) ==
  IF bits = <<>> THEN 0
  ELSE 2 * IntOf(SubSeq(bits, 1, Len(bits) - 1)) + bits[Len(bits)]

\* kept + 1 on MantissaBits digits; all ones carry into one more digit, which
\* moves the exponent up
RoundUp(kept, exp) ==
  IF \A i \in 1..MantissaBits : kept[i] = 1
  THEN [bits |-> [i \in 1..MantissaBits |-> IF i = 1 THEN 1 ELSE 0],
        exp |-> exp + 1]
  ELSE LET p == CHOOSE p \in 1..MantissaBits :
                  kept[p] = 0 /\ \A i \in (p + 1)..MantissaBits : kept[i] = 1
       IN [bits |-> [i \in 1..MantissaBits |->
                       IF i < p THEN kept[i] ELSE IF i = p THEN 1 ELSE 0],
           exp |-> exp]

\* round to nearest, ties to even: digits is an exact value of at least
\* MantissaBits digits that starts with 1, exp the exponent of its last digit
RoundNearestEven(digits, exp) ==
  IF /\ Len(digits) > MantissaBits
     /\ digits[MantissaBits + 1] = 1
     /\ \/ digits[MantissaBits] = 1
        \/ \E i \in (MantissaBits + 2)..Len(digits) : digits[i] = 1
  THEN RoundUp(SubSeq(digits, 1, MantissaBits), exp + Len(digits) - MantissaBits)
  ELSE [bits |-> SubSeq(digits, 1, MantissaBits),
        exp |-> exp + Len(digits) - MantissaBits]

\* long division of r by b, the digits of the integer part of the quotient
\* given: digits are produced until there are a digit past the significand
\* and a last digit that tells whether a remainder is left; frac counts the
\* digits after the binary point. A quotient below 1 starts with fewer zero
\* digits than b has digits.
DivDigits(r, b, integer) ==
  LET done == Iterate(LAMBDA acc, k :
                        IF Len(acc.out) = MantissaBits + 1 THEN acc
                        ELSE IF 2 * acc.r >= b
                        THEN [r |-> 2 * acc.r - b, out |-> Append(acc.out, 1),
                              frac |-> acc.frac + 1]
                        ELSE [r |-> 2 * acc.r,
                              out |-> IF acc.out = <<>> THEN acc.out
                                      ELSE Append(acc.out, 0),
                              frac |-> acc.frac + 1],
                      [r |-> r, out |-> integer, frac |-> 0],
                      1, MantissaBits + 1 + Len(Binary(b)))
  IN [digits |-> Append(done.out, IF done.r # 0 THEN 1 ELSE 0),
      exp |-> -(done.frac + 1)]

FloatRound(exact) == RoundNearestEven(exact.digits, exact.exp)

\* a / b for integers a >= 0 and b > 0
FloatDiv(a, b) ==
  IF a = 0 THEN FloatZero
  ELSE FloatRound(DivDigits(a % b, b, Binary(a \div b)))

\* the digits of n * bits, computed from the last digit to the first
MulDigits(n, bits) ==
  LET done == Iterate(LAMBDA acc, k :
                        [carry |-> (n * bits[MantissaBits + 1 - k] + acc.carry) \div 2,
                         out |-> <<(n * bits[MantissaBits + 1 - k] + acc.carry) % 2>>
                                   \o acc.out],
                      [carry |-> 0, out |-> <<>>], 1, MantissaBits)
  IN Binary(done.carry) \o done.out

\* n * x for an integer n >= 0 and a float x
FloatMul(n, x) ==
  IF n = 0 \/ x.bits = <<>> THEN FloatZero
  ELSE RoundNearestEven(MulDigits(n, x.bits), x.exp)

\* int(x) for a float x >= 0 below 2^31
FloatTrunc(x) ==
  IF x.bits = <<>> \/ -x.exp >= MantissaBits THEN 0
  ELSE IntOf(SubSeq(x.bits, 1, MantissaBits + x.exp))

\* int(math.ceil(x)) for a float x >= 0 below 2^31
FloatCeil(x) ==
  IF x.bits = <<>> THEN 0
  ELSE IF \E i \in 1..MantissaBits : i > MantissaBits + x.exp /\ x.bits[i] = 1
  THEN FloatTrunc(x) + 1
  ELSE FloatTrunc(x)

\* utils.z_score, the table of common values; confidence levels and z scores
\* in units of 1e-3
z_score(confidence_level) ==
  CASE confidence_level = 900 -> Frac(1645, 1000)
    [] confidence_level = 950 -> Frac(1960, 1000)
    [] confidence_level = 990 -> Frac(2576, 1000)
    [] confidence_level = 999 -> Frac(3291, 1000)

\* mutant: the finite population correction is never applied
FiniteCorrection_Off(cfg, N) == FALSE

\* _calculate_sample_size: the test that selects the corrected size
FiniteCorrection(cfg, N) == cfg.finite_correction /\ N > 0

\* StatisticalSampler._calculate_sample_size: the value returned and the
\* n0 and n_final entries of _formula_details; margin_error in units of 1e-3,
\* p_estimate in units of 1e-2
CalculateSampleSize(N, cfg) ==
  LET Z == z_score(cfg.conf_level)
      e == Frac(cfg.margin_error, 1000)
      p == IF cfg.p_worstcase THEN Frac(1, 2) ELSE Frac(cfg.p_estimate, 100)
      n0 == FracDiv(FracMul(FracMul(FracMul(Z, Z), p), FracSub(FromInt(1), p)),
                    FracMul(e, e))
      n == IF FiniteCorrection(cfg, N)
           THEN FracDiv(n0, FracAdd(FromInt(1),
                                    FracDiv(FracSub(n0, FromInt(1)), FromInt(N))))
           ELSE n0
  IN [n |-> Ceil(n),
      formula_details |-> [n0 |-> Round2(n0), N |-> N,
                           finite_correction |-> cfg.finite_correction,
                           n_final |-> Ceil(n)]]

\* mutant: top_k_skills is used even when it is 0
AvgSkills_TopK(cfg) == cfg.top_k_skills

\* _estimate_max_jobs: avg_skills
AvgSkills(cfg) == IF cfg.top_k_skills > 0 THEN cfg.top_k_skills ELSE 8

\* PerformanceSampler._estimate_max_jobs
EstimateMaxJobs(cfg) ==
  LET avg_skills == AvgSkills(cfg)
      bytes_per_job == 500 + 100 + avg_skills * 150 + avg_skills * 20
      max_jobs == Trunc(FracMul(FracDiv(FromInt(cfg.subset_max_bytes),
                                        FromInt(bytes_per_job)),
                                Frac(8, 10)))
  IN Max(max_jobs, 100)

\* the stratum of the jobs without an IN_CATEGORY edge
UNCATEGORIZED == <<"u","n","c","a","t","e","g","o","r","i","z","e","d">>

\* dict.get(k, default)
Get(d, k, default) == IF k \in DOMAIN d THEN d[k] ELSE default

\* the job -> category dict built from the IN_CATEGORY edges in edge order;
\* a later edge of a job replaces an earlier one
JobCategory(g) ==
  Iterate(LAMBDA job_category, i :
            IF g.edges[i].rel = "IN_CATEGORY"
            THEN Put(job_category, g.edges[i].source, g.edges[i].target)
            ELSE job_category,
          EmptyDict, 1, Len(g.edges))

\* the strata dict as the list of its items [cat_id, jobs] in insertion
\* order: each job is appended to the stratum of its category, a new stratum
\* being inserted at the end
StrataFrom(jobs, job_category, default) ==
  Iterate(LAMBDA strata, i :
            LET job_id == jobs[i]
                cat_id == Get(job_category, job_id, default)
                idx == {h \in 1..Len(strata) : strata[h].cat_id = cat_id}
            IN IF idx = {}
               THEN Append(strata, [cat_id |-> cat_id, jobs |-> <<job_id>>])
               ELSE [strata EXCEPT
                       ![CHOOSE h \in idx : TRUE].jobs = Append(@, job_id)],
          <<>>, 1, Len(jobs))

\* StatisticalSampler._stratify_jobs
StratifyJobs(jobs, g) == StrataFrom(jobs, JobCategory(g), UNCATEGORIZED)

\* the keys of the strata dict in insertion order
StrataOrder(strata) == [h \in 1..Len(strata) |-> strata[h].cat_id]

\* sum(len(jobs) for jobs in strata.values())
RECURSIVE TotalJobs(_)
TotalJobs(strata) ==
  IF strata = <<>> THEN 0 ELSE Len(Head(strata).jobs) + TotalJobs(Tail(strata))

\* the values of a dict of counts, summed
RECURSIVE SumOver(_, _)
SumOver(d, keys) ==
  IF keys = {} THEN 0
  ELSE LET k == CHOOSE k \in keys : TRUE IN d[k] + SumOver(d, keys \ {k})

\* _allocate_proportional: the warnings of the second pass, one per stratum
\* below min_per_category, in strata order; a warning is kept as the fields
\* its text is formatted from
RECURSIVE AllocationWarnings(_, _)
AllocationWarnings(strata, min_per) ==
  IF strata = <<>> THEN <<>>
  ELSE LET N_h == Len(Head(strata).jobs)
           rest == AllocationWarnings(Tail(strata), min_per)
       IN IF N_h < min_per
          THEN <<[cat_id |-> Head(strata).cat_id, N_h |-> N_h,
                  min_per_category |-> min_per]>> \o rest
          ELSE rest

\* mutant: a stratum below the minimum keeps its proportional allocation
TakeAll_Proportional(N_h, n_h) == n_h

\* _allocate_proportional: the allocation of a stratum that cannot meet the
\* minimum ("take all")
TakeAll(N_h, n_h) == N_h

\* _allocate_proportional: what logger.warning is called with when the total
\* allocation exceeds n * 1.5 (the message is kept as the fields its text is
\* formatted from); nothing is appended to the warnings list there
OvershootLogged(allocation, n) ==
  LET total_allocated == SumOver(allocation, DOMAIN allocation)
  IN IF 2 * total_allocated > 3 * n
     THEN <<[total_allocated |-> total_allocated, n |-> n]>>
     ELSE <<>>

\* _allocate_proportional: the value returned, _allocation_warnings and the
\* messages passed to the logger
Allocated(allocation, warnings, n) ==
  [allocation |-> allocation,
   warnings |-> warnings,
   logged |-> OvershootLogged(allocation, n)]

\* StatisticalSampler._allocate_proportional: the allocation dict,
\* _allocation_warnings and the messages logged
AllocateProportional(strata, n, cfg) ==
  LET N == TotalJobs(strata)
      min_per == cfg.min_per_category
      Stratum(cat_id) == strata[CHOOSE h \in 1..Len(strata) : strata[h].cat_id = cat_id]
      AllocationOf(cat_id) ==
        LET N_h == Len(Stratum(cat_id).jobs)
            n_h == FloatCeil(FloatMul(n, FloatDiv(N_h, N)))
        IN IF N_h < min_per THEN TakeAll(N_h, n_h) ELSE Max(n_h, min_per)
  IN Allocated([cat_id \in {strata[h].cat_id : h \in 1..Len(strata)} |->
                  AllocationOf(cat_id)],
               AllocationWarnings(strata, min_per), n)

\* the generator of the random module, seeded by random.seed and advanced
\* by every draw. The Mersenne Twister is replaced by a small linear
\* congruential generator: like it, a fixed function of the generator state.
NextRandom(r) == (r * 75 + 74) % 65537

\* mutant: the generator is left in the state it is in
SeedRandom_Skipped(r, seed) == r

\* random.seed(config.subset_seed)
SeedRandom(r, seed) == seed % 65537

\* Random._randbelow(n)
RandBelow(r, n) == [value |-> NextRandom(r) % n, rng |-> NextRandom(r)]

\* random.sample drawing with replacement: the pool is left as it is and an
\* entry can be drawn again
RandomSample_WithReplacement(r, population, k) ==
  LET n == Len(population)
      drawn == Iterate(LAMBDA acc, i :
                         LET d == RandBelow(acc.rng, n - i)
                         IN [result |-> Append(acc.result,
                                               population[d.value + 1]),
                             rng |-> d.rng],
                       [result |-> <<>>, rng |-> r], 0, k - 1)
  IN [selected |-> drawn.result, rng |-> drawn.rng]

\* random.sample: k draws without replacement from the pool, the drawn
\* position being refilled with the last entry of the pool
RandomSample(r, population, k) ==
  LET n == Len(population)
      drawn == Iterate(LAMBDA acc, i :
                         LET d == RandBelow(acc.rng, n - i)
                             j == d.value + 1
                         IN [result |-> Append(acc.result, acc.pool[j]),
                             pool |-> [acc.pool EXCEPT ![j] = acc.pool[n - i]],
                             rng |-> d.rng],
                       [result |-> <<>>, pool |-> population, rng |-> r],
                       0, k - 1)
  IN [selected |-> drawn.result, rng |-> drawn.rng]

\* the elements of a list, as a set
Range(q) == {q[i] : i \in 1..Len(q)}

Min(a, b) == IF a <= b THEN a ELSE b

\* StatisticalSampler._sample_strata: the sampled set and the generator
\* after the draws
RECURSIVE SampleStrataFrom(_, _, _, _)
SampleStrataFrom(acc, strata, allocation, h) ==
  IF h > Len(strata) THEN acc
  ELSE LET jobs == strata[h].jobs
           n_h == Min(Get(allocation, strata[h].cat_id, 0), Len(jobs))
       IN IF n_h > 0
          THEN LET d == RandomSample(acc.rng, jobs, n_h) IN
               SampleStrataFrom([sampled |-> acc.sampled \cup Range(d.selected),
                                 rng |-> d.rng],
                                strata, allocation, h + 1)
          ELSE SampleStrataFrom(acc, strata, allocation, h + 1)

SampleStrata(strata, allocation, r) ==
  SampleStrataFrom([sampled |-> {}, rng |-> r], strata, allocation, 1)

\* StatisticalSampler._build_report (the echo of the configuration is left
\* out)
BuildStatsReport(N, size, strata, alloc, sampled_ids) ==
  [sampling_mode |-> "stats",
   population |-> [total_jobs |-> N, total_categories |-> Len(strata)],
   formulas |-> size.formula_details,
   sample |-> [target_n |-> size.n, actual_n |-> Cardinality(sampled_ids)],
   stratification |->
     [cat_id \in {strata[h].cat_id : h \in 1..Len(strata)} |->
        LET jobs == strata[CHOOSE h \in 1..Len(strata) :
                             strata[h].cat_id = cat_id].jobs
        IN [population |-> Len(jobs),
            allocated |-> Get(alloc.allocation, cat_id, 0),
            sampled |-> Cardinality(sampled_ids \cap Range(jobs))]],
   warnings |-> alloc.warnings]

\* StatisticalSampler.sample up to the sampled ids: the ids, the report, the
\* generator after the call and the order in which the strata were visited
StatisticalSample(g, cfg, r) ==
  LET r0 == SeedRandom(r, cfg.subset_seed)
      jobs == g.job_order
      N == Len(jobs)
      size == CalculateSampleSize(N, cfg)
      strata == StratifyJobs(jobs, g)
      alloc == AllocateProportional(strata, size.n, cfg)
      drawn == SampleStrata(strata, alloc.allocation, r0)
  IN [mode |-> "stats",
      sampled |-> drawn.sampled,
      rng |-> drawn.rng,
      strata_order |-> StrataOrder(strata),
      logged |-> alloc.logged,
      categories |-> {},
      report |-> BuildStatsReport(N, size, strata, alloc, drawn.sampled)]

\* Counter over the targets of the IN_CATEGORY edges, as the list of its
\* items [cat_id, count] in insertion order
CatCounts(edges) ==
  Iterate(LAMBDA cat_counts, i :
            IF edges[i].rel = "IN_CATEGORY"
            THEN LET idx == {h \in 1..Len(cat_counts) :
                               cat_counts[h].cat_id = edges[i].target}
                 IN IF idx = {}
                    THEN Append(cat_counts, [cat_id |-> edges[i].target,
                                             count |-> 1])
                    ELSE [cat_counts EXCEPT
                            ![CHOOSE h \in idx : TRUE].count = @ + 1]
            ELSE cat_counts,
          <<>>, 1, Len(edges))

\* most_common taking the n items with the lowest counts
MostCommon_LeastCommon(cat_counts, n) ==
  {cat_counts[h].cat_id :
     h \in {h \in 1..Len(cat_counts) :
              Cardinality({j \in 1..Len(cat_counts) :
                             \/ cat_counts[j].count < cat_counts[h].count
                             \/ /\ cat_counts[j].count = cat_counts[h].count
                                /\ j < h}) < n}}

\* Counter.most_common(n): the n items with the highest counts, items of
\* equal count in insertion order
MostCommon(cat_counts, n) ==
  {cat_counts[h].cat_id :
     h \in {h \in 1..Len(cat_counts) :
              Cardinality({j \in 1..Len(cat_counts) :
                             \/ cat_counts[j].count > cat_counts[h].count
                             \/ /\ cat_counts[j].count = cat_counts[h].count
                                /\ j < h}) < n}}

\* PerformanceSampler._select_categories
SelectCategories(g, cfg) ==
  IF cfg.category_list # {}
  THEN {CAT_PREFIX \o c : c \in cfg.category_list}
  ELSE LET cat_counts == CatCounts(g.edges) IN
       IF cfg.subset_categories > 0
       THEN MostCommon(cat_counts, cfg.subset_categories)
       ELSE {cat_counts[h].cat_id : h \in 1..Len(cat_counts)}

\* _get_jobs_in_categories keeping every job
GetJobsInCategories_All(jobs, g, categories) == jobs

\* PerformanceSampler._get_jobs_in_categories
GetJobsInCategories(jobs, g, categories) ==
  LET job_category == JobCategory(g)
      Eligible(job_id) ==
        job_id \in DOMAIN job_category /\ job_category[job_id] \in categories
  IN SelectSeq(jobs, Eligible)

\* _sample_within_budget: the loop over the strata, ended by the budget test
RECURSIVE BudgetLoop(_, _, _, _, _)
BudgetLoop(acc, strata, N, max_jobs, h) ==
  IF h > Len(strata) THEN acc
  ELSE LET jobs == strata[h].jobs
           proportion == FloatDiv(Len(jobs), N)
           n_h == Min(Max(1, FloatTrunc(FloatMul(max_jobs, proportion))),
                      Len(jobs))
           d == RandomSample(acc.rng, jobs, n_h)
           acc1 == [sampled |-> acc.sampled \cup Range(d.selected),
                    rng |-> d.rng,
                    visited |-> Append(acc.visited, strata[h].cat_id)]
       IN IF Cardinality(acc1.sampled) >= max_jobs THEN acc1
          ELSE BudgetLoop(acc1, strata, N, max_jobs, h + 1)

\* PerformanceSampler._sample_within_budget
SampleWithinBudget(eligible_jobs, g, max_jobs, r) ==
  IF Len(eligible_jobs) <= max_jobs
  THEN [sampled |-> Range(eligible_jobs), rng |-> r, visited |-> <<>>]
  ELSE BudgetLoop([sampled |-> {}, rng |-> r, visited |-> <<>>],
                  StrataFrom(eligible_jobs, JobCategory(g), UNCATEGORIZED),
                  Len(eligible_jobs), max_jobs, 1)

\* PerformanceSampler._build_report (the echo of the configuration is left
\* out)
BuildPerfReport(categories, eligible_jobs, sampled_ids) ==
  [sampling_mode |-> "perf",
   result |-> [eligible_jobs |-> Len(eligible_jobs),
               jobs_sampled |-> Cardinality(sampled_ids),
               categories_included |-> Cardinality(categories)]]

\* PerformanceSampler.sample up to the sampled ids
PerformanceSample(g, cfg, r) ==
  LET r0 == SeedRandom(r, cfg.subset_seed)
      jobs == g.job_order
      categories == SelectCategories(g, cfg)
      eligible_jobs == GetJobsInCategories(jobs, g, categories)
      max_jobs == EstimateMaxJobs(cfg)
      drawn == SampleWithinBudget(eligible_jobs, g, max_jobs, r0)
  IN [mode |-> "perf",
      sampled |-> drawn.sampled,
      rng |-> drawn.rng,
      strata_order |-> drawn.visited,
      logged |-> <<>>,
      categories |-> categories,
      report |-> BuildPerfReport(categories, eligible_jobs, drawn.sampled)]

(***************************************************************************)
(* Inputs.                                                                 *)
(***************************************************************************)
MaxRows == 2

MaxRowMentions == 3

MaxCalls == 3

\* raw skill labels
PY == <<"P","y">>
PY_DOT == <<"P","Y",".">>
PY_SPACE == <<"p","y"," ">>
GO == <<"G","o">>
SQL == <<"S","Q","L">>
C_SHORT == <<"C">>
C_PLUS == <<"C","+","+">>
NUMERIC == <<"7",".","5">>
BLANK == <<" ">>

\* category labels
IT == <<"I","T">>
HR == <<"H","R">>

Mention(skill, bucket, similarity) ==
  [skill |-> skill, bucket |-> bucket, mapping_similarity |-> similarity]

\* all sequences over S of length at most n
RECURSIVE SeqsUpTo(_, _)
SeqsUpTo(S, n) ==
  IF n = 0 THEN {<<>>}
  ELSE LET shorter == SeqsUpTo(S, n - 1) IN
       shorter \cup {Append(q, x) : q \in shorter, x \in S}

\* the mention lists of the rows of a run: none, one mention, two skills of
\* different bucket and similarity, and an alias variant next to a label the
\* normalizer rejects
SkillLists ==
  {<<>>,
   <<Mention(PY, "core", 90000)>>,
   <<Mention(GO, "extra", 50004), Mention(PY, "core", 90000)>>,
   <<Mention(PY_DOT, "extra", 50004), Mention(C_SHORT, "core", 80000)>>}

JobIds == {<<"1">>, <<"2">>}

\* the columns assigned_occupation_group and group_name of a row
CategoryColumns ==
  {<<IT, HR>>, <<<<>>, HR>>, <<<<>>, <<>>>>}

Row(job_id, cats, skills) ==
  [job_id |-> job_id,
   assigned_occupation_group |-> cats[1],
   group_name |-> cats[2],
   skills |-> skills]

Rows ==
  {Row(j, c, sk) : j \in JobIds, c \in CategoryColumns, sk \in SkillLists}

\* Config: the defaults of the filter and sampling options (conf_level and
\* margin_error in units of 1e-3, p_estimate in units of 1e-2)
DefaultConfig ==
  [min_similarity |-> 0,
   top_k_skills |-> 0,
   buckets |-> {},
   include_aliases |-> TRUE,
   conf_level |-> 950,
   margin_error |-> 30,
   p_worstcase |-> TRUE,
   p_estimate |-> 50,
   finite_correction |-> TRUE,
   min_per_category |-> 30,
   subset_max_bytes |-> 100000000,
   subset_seed |-> 42,
   subset_categories |-> 0,
   category_list |-> {}]

\* the default configuration and one configuration per filter
Configs ==
  {DefaultConfig,
   [DefaultConfig EXCEPT !.min_similarity = 60000],
   [DefaultConfig EXCEPT !.top_k_skills = 1],
   [DefaultConfig EXCEPT !.buckets = {"core"}]}

\* the mentions of the single row of the per-row runs
RowMentions ==
  {Mention(PY, "core", 90000),
   Mention(GO, "core", 70000),
   Mention(SQL, "extra", 50000),
   Mention(PY_DOT, "extra", 80004),
   Mention(PY, "core", 60000),
   Mention(GO, "extra", 70000),
   Mention(C_SHORT, "core", 90000)}

SingleRows ==
  {Row(<<"1">>, <<<<>>, <<>>>>, sk) : sk \in SeqsUpTo(RowMentions, MaxRowMentions)}

MaxCategoryRows == 2

\* the rows of the category runs: the columns assigned_occupation_group and
\* group_name empty, whitespace only, padded and plain, no skills
CategoryRows ==
  {Row(j, <<a, g>>, <<>>) :
     j \in JobIds,
     a \in {<<>>, <<" ">>, IT, <<" ">> \o IT},
     g \in {<<>>, <<" ">>, HR, HR \o <<" ">>}}

RowConfigs ==
  {[DefaultConfig EXCEPT !.min_similarity = m, !.top_k_skills = k, !.buckets = b] :
     m \in {0, 60000}, k \in {0, 1, 2}, b \in {{}, {"core"}}}

\* the sampling options of the sample-size runs
SizeConfigs ==
  {[DefaultConfig EXCEPT !.conf_level = c, !.margin_error = e,
                         !.p_worstcase = w, !.p_estimate = p,
                         !.finite_correction = f] :
     c \in {900, 950}, e \in {30, 50, 500}, w \in BOOLEAN,
     p \in {50, 20, 10}, f \in BOOLEAN}
  \cup {[DefaultConfig EXCEPT !.conf_level = c, !.finite_correction = f] :
          c \in {990, 999}, f \in BOOLEAN}

MaxSampleRows == 4

MaxSampleCalls == 2

OPS == <<"O","p","s">>

\* the category columns of the rows of the sampling runs: a primary value,
\* a fallback value only, neither
SampleCategories == {<<IT, <<>>>>, <<<<>>, HR>>, <<<<>>, <<>>>>}

\* rows first..last of a file, all with the same category columns
Block(cats, first, last) ==
  [i \in 1..(last - first + 1) |-> Row(ToDigits(first + i - 1), cats, <<>>)]

\* the parsed rows of the input files of the sampling runs: every file of
\* up to MaxSampleRows rows, and files with strata of 10 and 40 jobs, of
\* 60 and 50 jobs, of 76 and 56 jobs, of 101 jobs, and of 200, 1 and 1 jobs
\* in both orders
SampleFiles ==
  {[i \in 1..Len(cs) |-> Row(ToDigits(i), cs[i], <<>>)] :
     cs \in SeqsUpTo(SampleCategories, MaxSampleRows) \ {<<>>}}
  \cup {Block(<<IT, <<>>>>, 1, 10) \o Block(<<<<>>, HR>>, 11, 50),
        Block(<<IT, <<>>>>, 1, 60) \o Block(<<<<>>, HR>>, 61, 110),
        Block(<<IT, <<>>>>, 1, 76) \o Block(<<<<>>, HR>>, 77, 132),
        Block(<<IT, <<>>>>, 1, 101) \o Block(<<<<>>, <<>>>>, 102, 103),
        Block(<<IT, <<>>>>, 1, 200) \o Block(<<<<>>, HR>>, 201, 201)
          \o Block(<<OPS, <<>>>>, 202, 202),
        Block(<<<<>>, HR>>, 1, 1) \o Block(<<OPS, <<>>>>, 2, 2)
          \o Block(<<IT, <<>>>>, 3, 202)}

\* the sampling options of the sampling runs: a 90% level with margin 0.5
\* (targets below the job count) and a budget of 100 jobs, varied one option
\* at a time, the defaults, the defaults with margin 0.05, and a category
\* list together with a category limit
SmallSampleConfig ==
  [DefaultConfig EXCEPT !.conf_level = 900, !.margin_error = 500,
                        !.min_per_category = 2, !.subset_max_bytes = 1000]

SampleConfigs ==
  {DefaultConfig,
   [DefaultConfig EXCEPT !.margin_error = 50],
   SmallSampleConfig,
   [SmallSampleConfig EXCEPT !.subset_seed = 7],
   [SmallSampleConfig EXCEPT !.min_per_category = 30],
   [SmallSampleConfig EXCEPT !.finite_correction = FALSE],
   [SmallSampleConfig EXCEPT !.subset_categories = 1],
   [SmallSampleConfig EXCEPT !.category_list = {<<"h","r">>}],
   [SmallSampleConfig EXCEPT !.category_list = {<<"h","r">>},
                             !.subset_categories = 1]}

\* the states of the generator when the program starts (it is seeded from
\* the operating system)
UnseededStates == {0, 1}

\* the byte budgets and top_k_skills values of the job-estimate runs
BudgetConfigs ==
  {[DefaultConfig EXCEPT !.subset_max_bytes = b, !.top_k_skills = k] :
     b \in {0, 1, 1000, 245000, 245001, 250000, 1000000, 10000000, 100000000,
            200000000},
     k \in {0, 1, 2, 5, 8, 10}}

\* the job counts of the sample-size runs
Populations == {0, 1, 2, 5, 100, 1000}

\* the mentions passed to _register_skill directly
NormMentions ==
  {Mention(PY, "core", 90000),
   Mention(PY_SPACE, "core", 50000),
   Mention(PY_DOT, "extra", 70000),
   Mention(GO, "", 70000),
   Mention(C_SHORT, "core", 80000),
   Mention(C_PLUS, "core", 80000),
   Mention(NUMERIC, "core", 80000),
   Mention(BLANK, "core", 80000),
   Mention(<<>>, "core", 80000),
   Mention(NotAString, "core", 80000)}

MaxLabelCalls == 2

\* the characters of a string literal
RD_AMPERSAND ==
  <<"r","e","s","e","a","r","c","h"," ","&"," ",
    "d","e","v","e","l","o","p","m","e","n","t">>

RD_AND ==
  <<"r","e","s","e","a","r","c","h"," ","a","n","d"," ",
    "d","e","v","e","l","o","p","m","e","n","t">>

R_AMPERSAND_D == <<"R","&","D">>

R_AND_D == <<"r"," ","a","n","d"," ","d">>

W_SLASH_PYTHON == <<"w","/"," ","p","y","t","h","o","n">>

WITH_PYTHON == <<"w","i","t","h"," ","p","y","t","h","o","n">>

W_SLASH_O_PYTHON == <<"w","/","o"," ","p","y","t","h","o","n">>

WITHOUT_PYTHON == <<"w","i","t","h","o","u","t"," ","p","y","t","h","o","n">>

PLUSES == <<"+","+">>

\* a label of n letters
Letters(n) == [i \in 1..n |-> "a"]

\* the labels of the label runs: the abbreviations with their expansions,
\* and labels that are one character long, numeric, blank, without a slug
\* character, and of MaxSkillLen and MaxSkillLen + 1 characters
LabelMentions ==
  {Mention(label, "core", 90000) :
     label \in {RD_AMPERSAND, RD_AND, R_AMPERSAND_D, R_AND_D,
                W_SLASH_PYTHON, WITH_PYTHON, W_SLASH_O_PYTHON, WITHOUT_PYTHON,
                C_SHORT, NUMERIC, BLANK, PLUSES, PY_DOT,
                Letters(MaxSkillLen), Letters(MaxSkillLen + 1)}}

\* the labels passed to get_skill_id directly
LookupLabels == {PY, PY_SPACE, PY_DOT, GO, C_SHORT, BLANK, <<>>}

MaxTitleCalls == 3

PYTHON_SQL == <<"P","Y","T","H","O","N"," ","S","Q","L">>

PYTHON_SQL_LOWER == <<"p","y","t","h","o","n"," "," ","s","q","l">>

MYSQL == <<"m","y","S","Q","L">>

\* the mentions of the display-label runs: labels that share a canonical key
\* and differ in letter case, spacing and punctuation, with words that are
\* acronyms, uppercase words of more than 5 characters, mixed-case words, and
\* a label that is rejected
TitleMentions ==
  {Mention(label, "core", 90000) :
     label \in {PY, PY_DOT, PY_SPACE, PYTHON_SQL, PYTHON_SQL_LOWER, MYSQL,
                R_AMPERSAND_D, R_AND_D, C_SHORT}}

MaxRejectedRows == 2

\* the mention lists of the rows of the rejected-label runs: the
\* one-character label "C", the label "C++" of the same slug, a numeric
\* label and an accepted label
RejectedSkillLists ==
  {<<>>,
   <<Mention(C_SHORT, "core", 90000)>>,
   <<Mention(C_PLUS, "core", 90000)>>,
   <<Mention(C_SHORT, "core", 90000), Mention(C_PLUS, "extra", 80000)>>,
   <<Mention(NUMERIC, "core", 90000)>>,
   <<Mention(NUMERIC, "core", 90000), Mention(PY, "core", 70000)>>}

RejectedRows ==
  {Row(j, <<<<>>, <<>>>>, sk) : j \in JobIds, sk \in RejectedSkillLists}

MaxCopyRows == 2

\* the rows of the runs that write to the subgraph: with and without
\* category, with and without a skill
CopyRows ==
  {Row(j, c, sk) : j \in JobIds,
                   c \in {<<IT, <<>>>>, <<<<>>, <<>>>>},
                   sk \in {<<>>, <<Mention(PY, "core", 90000)>>}}

\* the configurations of these runs
CopyConfigs == {DefaultConfig, SmallSampleConfig}

\* the value written to an attribute
CHANGED == <<"c","h","a","n","g","e","d">>

MaxFileRows == 2

DEV == <<"d","e","v">>

ACME == <<"a","c","m","e">>

\* a well-formed entry of a skills list
SkillEntry(skill, similarity) ==
  JObject(("skill" :> skill) @@ ("bucket" :> JString(<<"c","o","r","e">>))
            @@ ("mapping_similarity" :> similarity))

\* the skills cells of the input files: empty, whitespace only, not JSON, a
\* JSON object, lists of well-formed entries, and lists with a well-formed
\* entry next to one that is a number, that lacks the skill, whose skill is
\* null, whose skill is a list, whose similarity is a word or a list
SkillsCells ==
  {NaN,
   BlankJsonCell,
   JsonCell(JSONDecodeError),
   JsonCell(JObject("skill" :> JString(PY))),
   JsonCell(JArray(<<SkillEntry(JString(PY_SPACE), JNumber(90000))>>)),
   JsonCell(JArray(<<SkillEntry(JString(PY), JNumber(90000)), JNumber(7),
                     SkillEntry(JString(GO), JString(<<"7">>))>>)),
   JsonCell(JArray(<<JObject("bucket" :> JString(<<"c","o","r","e">>)),
                     SkillEntry(JString(PY), JNumber(90000))>>)),
   JsonCell(JArray(<<SkillEntry(JString(PY), JNumber(90000)),
                     SkillEntry(JNull, JNumber(50000))>>)),
   JsonCell(JArray(<<SkillEntry(JString(PY), JNumber(90000)),
                     SkillEntry(JArray(<<JString(GO), JString(SQL)>>),
                                JNumber(50000))>>)),
   JsonCell(JArray(<<SkillEntry(JString(PY), JString(<<"h","i","g","h">>))>>)),
   JsonCell(JArray(<<SkillEntry(JString(PY),
                                JArray(<<JNumber(50000), JNumber(60000)>>))>>))}

RawRow(title, assigned, group, skills) ==
  ("Job Title" :> title) @@ ("Company Name" :> TextCell(ACME))
    @@ ("District" :> NaN) @@ ("Assigned_Occupation_Group" :> assigned)
    @@ ("Group" :> group) @@ ("importance_standardised" :> skills)

\* the rows of the input files: every skills cell, and rows without a job
\* title, with a padded, a whitespace-only and an empty primary category
RawRows ==
  {RawRow(TextCell(DEV), TextCell(IT), TextCell(HR), sk) : sk \in SkillsCells}
  \cup {RawRow(NaN, a, g, sk) :
          a \in {NaN, TextCell(<<" ">>), TextCell(<<" ">> \o IT)},
          g \in {NaN, TextCell(HR \o <<" ">>)},
          sk \in {NaN, JsonCell(JSONDecodeError)}}

\* the input files: up to MaxFileRows rows
RawFiles == SeqsUpTo(RawRows, MaxFileRows)

(***************************************************************************)
(* The pipeline of build_graph.main: parse, normalize, build, sample.      *)
(***************************************************************************)
Init ==
  /\ pc = "parse"
  /\ config \in Configs
  /\ data = <<>>
  /\ normalizer = NewNormalizer
  /\ graph = NewGraph
  /\ subgraph = NewGraph
  /\ sampled = {}
  /\ ret = None
  /\ calls = <<>>
  /\ looked = None
  /\ parser = NewParser
  /\ input = <<>>
  /\ sampler = NewSampler
  /\ rng = 0

\* DataParser.parse yields one more parsed row
ParseRowFrom(rows, maxRows) ==
  /\ pc = "parse"
  /\ Len(data) < maxRows
  /\ \E row \in rows : data' = Append(data, row)
  /\ UNCHANGED <<pc, config, normalizer, graph, subgraph, sampled, ret, calls,
               looked, parser, input, sampler, rng>>

ParseRow == ParseRowFrom(Rows, MaxRows)

\* SkillNormalizer.process_all over the parsed rows
ProcessAll ==
  /\ pc = "parse"
  /\ data # <<>>
  /\ normalizer' = RegisterRows(normalizer, data)
  /\ pc' = "normalized"
  /\ UNCHANGED <<config, data, graph, subgraph, sampled, ret, calls, looked, parser, input, sampler, rng>>

\* GraphBuilder.build over the parsed rows
Build ==
  /\ pc = "normalized"
  /\ graph' = BuildGraph(data, normalizer, config)
  /\ pc' = "built"
  /\ UNCHANGED <<config, data, normalizer, subgraph, sampled, ret, calls,
               looked, parser, input, sampler, rng>>

\* the job nodes of a graph
JobNodeIds(g) == {id \in DOMAIN g.nodes : g.nodes[id].kind = "job"}

\* BaseSampler._build_subgraph on a set of sampled jobs of the graph
Sample ==
  /\ pc = "built"
  /\ \E S \in SUBSET JobNodeIds(graph) :
       /\ sampled' = S
       /\ subgraph' = BuildSubgraph(graph, S)
  /\ pc' = "sampled"
  /\ UNCHANGED <<config, data, normalizer, graph, ret, calls, looked, parser, input, sampler, rng>>

Next == ParseRow \/ ProcessAll \/ Build \/ Sample

Spec == Init /\ [][Next]_vars

(***************************************************************************)
(* One row through the normalizer and the assembler.                       *)
(***************************************************************************)
InitRow ==
  /\ pc = "parse"
  /\ config \in RowConfigs
  /\ data = <<>>
  /\ normalizer = NewNormalizer
  /\ graph = NewGraph
  /\ subgraph = NewGraph
  /\ sampled = {}
  /\ ret = None
  /\ calls = <<>>
  /\ looked = None
  /\ parser = NewParser
  /\ input = <<>>
  /\ sampler = NewSampler
  /\ rng = 0

ParseSingleRow == ParseRowFrom(SingleRows, 1)

NextRow == ParseSingleRow \/ ProcessAll \/ Build

SpecRow == InitRow /\ [][NextRow]_vars

(***************************************************************************)
(* The assembler on rows that differ in their category columns.            *)
(***************************************************************************)
ParseCategoryRow == ParseRowFrom(CategoryRows, MaxCategoryRows)

NextCategory == ParseCategoryRow \/ ProcessAll \/ Build

SpecCategory == Init /\ [][NextCategory]_vars

(***************************************************************************)
(* The assembler on rows with labels the normalizer rejects.               *)
(***************************************************************************)
ParseRejectedRow == ParseRowFrom(RejectedRows, MaxRejectedRows)

NextRejected == ParseRejectedRow \/ ProcessAll \/ Build

SpecRejected == Init /\ [][NextRejected]_vars

(***************************************************************************)
(* Direct calls of SkillNormalizer._register_skill.                        *)
(***************************************************************************)
InitNorm ==
  /\ pc = "register"
  /\ config = DefaultConfig
  /\ data = <<>>
  /\ normalizer = NewNormalizer
  /\ graph = NewGraph
  /\ subgraph = NewGraph
  /\ sampled = {}
  /\ ret = None
  /\ calls = <<>>
  /\ looked = None
  /\ parser = NewParser
  /\ input = <<>>
  /\ sampler = NewSampler
  /\ rng = 0

RegisterFrom(mentions, maxCalls) ==
  /\ pc = "register"
  /\ Len(calls) < maxCalls
  /\ \E m \in mentions :
       LET r == RegisterSkill(normalizer, m) IN
       /\ normalizer' = r.norm
       /\ ret' = r.ret
       /\ calls' = Append(calls, m)
  /\ UNCHANGED <<pc, config, data, graph, subgraph, sampled, looked, parser, input, sampler, rng>>

Register == RegisterFrom(NormMentions, MaxCalls)

\* a call of SkillNormalizer.get_skill_id
Lookup ==
  /\ pc = "register"
  /\ \E raw \in LookupLabels :
       /\ looked' = raw
       /\ ret' = GetSkillId(normalizer, raw)
       /\ normalizer' = AfterGetSkillId(normalizer, raw)
  /\ UNCHANGED <<pc, config, data, graph, subgraph, sampled, calls, parser, input,
                 sampler, rng>>

NextNorm == Register \/ Lookup

SpecNorm == InitNorm /\ [][NextNorm]_vars

(***************************************************************************)
(* Direct calls of _register_skill with labels that hold abbreviations and *)
(* labels at the limits of the rejection policy.                           *)
(***************************************************************************)
RegisterLabel == RegisterFrom(LabelMentions, MaxLabelCalls)

NextLabel == RegisterLabel

SpecLabel == InitNorm /\ [][NextLabel]_vars

(***************************************************************************)
(* Direct calls of _register_skill with labels that share canonical keys.  *)
(***************************************************************************)
RegisterTitle == RegisterFrom(TitleMentions, MaxTitleCalls)

NextTitle == RegisterTitle

SpecTitle == InitNorm /\ [][NextTitle]_vars

(***************************************************************************)
(* Direct calls of StatisticalSampler._calculate_sample_size.              *)
(***************************************************************************)
InitSize ==
  /\ pc = "size"
  /\ config \in SizeConfigs
  /\ data = <<>>
  /\ normalizer = NewNormalizer
  /\ graph = NewGraph
  /\ subgraph = NewGraph
  /\ sampled = {}
  /\ ret = None
  /\ calls = <<>>
  /\ looked = None
  /\ parser = NewParser
  /\ input = <<>>
  /\ sampler \in {[N |-> N, n |-> 0, formula_details |-> EmptyDict] :
                    N \in Populations}
  /\ rng = 0

\* a call of _calculate_sample_size with the job count N
CalculateSize ==
  /\ pc = "size"
  /\ LET r == CalculateSampleSize(sampler.N, config) IN
       sampler' = [sampler EXCEPT !.n = r.n,
                                  !.formula_details = r.formula_details]
  /\ pc' = "sized"
  /\ UNCHANGED <<config, data, normalizer, graph, subgraph, sampled, ret, calls,
                 looked, parser, input, rng>>

NextSize == CalculateSize

SpecSize == InitSize /\ [][NextSize]_vars

(***************************************************************************)
(* Direct calls of PerformanceSampler._estimate_max_jobs.                  *)
(***************************************************************************)
InitBudget ==
  /\ pc = "budget"
  /\ config \in BudgetConfigs
  /\ data = <<>>
  /\ normalizer = NewNormalizer
  /\ graph = NewGraph
  /\ subgraph = NewGraph
  /\ sampled = {}
  /\ ret = None
  /\ calls = <<>>
  /\ looked = None
  /\ parser = NewParser
  /\ input = <<>>
  /\ sampler = [max_jobs |-> 0]
  /\ rng = 0

\* a call of _estimate_max_jobs
EstimateJobs ==
  /\ pc = "budget"
  /\ sampler' = [sampler EXCEPT !.max_jobs = EstimateMaxJobs(config)]
  /\ pc' = "estimated"
  /\ UNCHANGED <<config, data, normalizer, graph, subgraph, sampled, ret, calls,
                 looked, parser, input, rng>>

NextBudget == EstimateJobs

SpecBudget == InitBudget /\ [][NextBudget]_vars

(***************************************************************************)
(* The parser reading an input file row by row.                            *)
(***************************************************************************)
InitParse ==
  /\ pc = "parse"
  /\ config = DefaultConfig
  /\ data = <<>>
  /\ normalizer = NewNormalizer
  /\ graph = NewGraph
  /\ subgraph = NewGraph
  /\ sampled = {}
  /\ ret = None
  /\ calls = <<>>
  /\ looked = None
  /\ parser = NewParser
  /\ input \in RawFiles
  /\ sampler = NewSampler
  /\ rng = 0

\* DataParser._parse_csv: the next row of the file is counted, then parsed
\* and yielded, or logged as a bad row
ParseCsv ==
  /\ pc = "parse"
  /\ parser.total_rows < Len(input)
  /\ LET row_idx == parser.total_rows
         out == ParseCsvRow(parser, data, input[row_idx + 1], row_idx)
     IN /\ parser' = out.parser
        /\ data' = out.data
  /\ UNCHANGED <<pc, config, normalizer, graph, subgraph, sampled, ret, calls,
                 looked, input, sampler, rng>>

NextParse == ParseCsv

SpecParse == InitParse /\ [][NextParse]_vars

(***************************************************************************)
(* The pipeline with the samplers: parse, normalize, build, then calls of  *)
(* sample on the built graph.                                              *)
(***************************************************************************)
InitSample ==
  /\ pc = "parse"
  /\ config \in SampleConfigs
  /\ data = <<>>
  /\ normalizer = NewNormalizer
  /\ graph = NewGraph
  /\ subgraph = NewGraph
  /\ sampled = {}
  /\ ret = None
  /\ calls = <<>>
  /\ looked = None
  /\ parser = NewParser
  /\ input = <<>>
  /\ sampler = NewSampler
  /\ rng \in UnseededStates

\* list(parser.parse()): all rows of the input file
ParseFile ==
  /\ pc = "parse"
  /\ data = <<>>
  /\ \E file \in SampleFiles : data' = file
  /\ UNCHANGED <<pc, config, normalizer, graph, subgraph, sampled, ret, calls,
                 looked, parser, input, sampler, rng>>

\* a call of sample: the run is recorded, the subgraph is built
SampleWith(run) ==
  /\ pc \in {"built", "sampled"}
  /\ Len(sampler.runs) < MaxSampleCalls
  /\ sampled' = run.sampled
  /\ subgraph' = BuildSubgraph(graph, run.sampled)
  /\ rng' = run.rng
  /\ sampler' = [sampler EXCEPT !.runs =
                   Append(@, [mode |-> run.mode,
                              sampled |-> run.sampled,
                              strata_order |-> run.strata_order,
                              logged |-> run.logged,
                              categories |-> run.categories,
                              report |-> run.report])]
  /\ pc' = "sampled"
  /\ UNCHANGED <<config, data, normalizer, graph, ret, calls, looked, parser, input>>

\* StatisticalSampler.sample
SampleStats == SampleWith(StatisticalSample(graph, config, rng))

\* PerformanceSampler.sample
SamplePerf == SampleWith(PerformanceSample(graph, config, rng))

NextSample == ParseFile \/ ProcessAll \/ Build \/ SampleStats \/ SamplePerf

SpecSample == InitSample /\ [][NextSample]_vars

(***************************************************************************)
(* A caller that samples a graph and then writes to the subgraph.          *)
(***************************************************************************)
InitCopy ==
  /\ pc = "parse"
  /\ config \in CopyConfigs
  /\ data = <<>>
  /\ normalizer = NewNormalizer
  /\ graph = NewGraph
  /\ subgraph = NewGraph
  /\ sampled = {}
  /\ ret = None
  /\ calls = <<>>
  /\ looked = None
  /\ parser = NewParser
  /\ input = <<>>
  /\ sampler = NewSampler
  /\ rng = 0

ParseCopyRow == ParseRowFrom(CopyRows, MaxCopyRows)

\* the assignment d[attribute] = value... to the dict object of a node
NodeWritten(node) == [node EXCEPT !.id = CHANGED]

\* ... and to the dict object of an edge
EdgeWritten(edge) == [edge EXCEPT !.target = CHANGED]

\* subgraph.nodes[id][attribute] = value: the write goes to the dict object
\* the subgraph holds, and shows in every graph that holds this object
SetNodeAttrOf(objects) ==
  /\ pc = "sampled"
  /\ \E id \in DOMAIN subgraph.nodes :
       /\ subgraph' = [subgraph EXCEPT !.nodes[id] = NodeWritten(@)]
       /\ graph' = IF objects.nodes[id].owner = "original"
                   THEN [graph EXCEPT !.nodes[id] = NodeWritten(@)]
                   ELSE graph
  /\ pc' = "written"
  /\ UNCHANGED <<config, data, normalizer, sampled, ret, calls, looked, parser,
                 input, sampler, rng>>

SetNodeAttr == SetNodeAttrOf(SubgraphObjects(graph, sampled))

\* subgraph.edges[k][attribute] = value
SetEdgeAttrOf(objects) ==
  /\ pc = "sampled"
  /\ \E k \in 1..Len(subgraph.edges) :
       /\ subgraph' = [subgraph EXCEPT !.edges[k] = EdgeWritten(@)]
       /\ graph' = IF objects.edges[k].owner = "original"
                   THEN [graph EXCEPT !.edges[objects.edges[k].key] =
                                        EdgeWritten(@)]
                   ELSE graph
  /\ pc' = "written"
  /\ UNCHANGED <<config, data, normalizer, sampled, ret, calls, looked, parser,
                 input, sampler, rng>>

SetEdgeAttr == SetEdgeAttrOf(SubgraphObjects(graph, sampled))

NextCopy ==
  \/ ParseCopyRow
  \/ ProcessAll
  \/ Build
  \/ SampleStats
  \/ SamplePerf
  \/ SetNodeAttr
  \/ SetEdgeAttr

SpecCopy == InitCopy /\ [][NextCopy]_vars

(***************************************************************************)
(* Properties.                                                             *)
(***************************************************************************)
Built == pc \in {"built", "sampled"}

\* the positions of the edges of one relation
EdgeIdx(g, rel) == {i \in 1..Len(g.edges) : g.edges[i].rel = rel}

\* the category nodes of a graph
CategoryNodeIds(g) == {id \in DOMAIN g.nodes : g.nodes[id].kind = "category"}

\* the skill nodes of a graph
SkillNodeIds(g) == {id \in DOMAIN g.nodes : g.nodes[id].kind = "skill"}

\* the number of IN_CATEGORY edges of g that target id
InCategoryCount(g, id) ==
  Cardinality({i \in EdgeIdx(g, "IN_CATEGORY") : g.edges[i].target = id})

\* p is a prefix of s
HasPrefix(s, p) == Len(s) >= Len(p) /\ SubSeq(s, 1, Len(p)) = p

\* C1: after the sampler has built a subgraph, every category node of the
\* subgraph has job_count equal to the number of IN_CATEGORY edges of the
\* subgraph that target it.
C1_SubgraphJobCount ==
  pc = "sampled" =>
    \A id \in CategoryNodeIds(subgraph) :
      subgraph.nodes[id].job_count = InCategoryCount(subgraph, id)

\* C2: after build, every category node's job_count equals the number of
\* IN_CATEGORY edges of the edge list that target it, and it is the number of
\* rows that resolve to that category, whatever min_similarity, top_k_skills
\* and the bucket allow-list are.
C2_CategoryJobCount ==
  Built =>
    \A id \in CategoryNodeIds(graph) :
      /\ graph.nodes[id].job_count = InCategoryCount(graph, id)
      /\ graph.nodes[id].job_count =
           Cardinality({i \in 1..Len(data) : CategoryId(data[i]) = id})

\* C2 witness: a category with two jobs, built while a filter dropped a mention
C2_Witness ==
  /\ pc = "built"
  /\ graph.skills_filtered_similarity + graph.skills_filtered_bucket > 0
  /\ \E id \in CategoryNodeIds(graph) : graph.nodes[id].job_count = 2

\* C3: in the built graph there is at most one REQUIRES_SKILL edge per
\* (job node id, skill node id) pair and at most one IN_CATEGORY edge per
\* source job node id, job_id values of different rows not being assumed
\* distinct.
C3_EdgeUniqueness ==
  Built =>
    /\ \A i, j \in EdgeIdx(graph, "REQUIRES_SKILL") :
         (graph.edges[i].source = graph.edges[j].source
            /\ graph.edges[i].target = graph.edges[j].target) => i = j
    /\ \A i, j \in EdgeIdx(graph, "IN_CATEGORY") :
         graph.edges[i].source = graph.edges[j].source => i = j

\* the id prefix of a node kind
KindPrefix(kind) ==
  CASE kind = "job" -> JOB_PREFIX
    [] kind = "skill" -> SKILL_PREFIX
    [] kind = "category" -> CAT_PREFIX

\* C4: in the built graph every edge's source and target are ids of nodes of
\* the node collection, every node is stored under its own id, and the id
\* starts with the prefix of the node's kind (job:, skill:, cat:).
C4_ReferentialIntegrity ==
  Built =>
    /\ \A i \in 1..Len(graph.edges) :
         /\ graph.edges[i].source \in DOMAIN graph.nodes
         /\ graph.edges[i].target \in DOMAIN graph.nodes
         /\ graph.nodes[graph.edges[i].source].kind = "job"
         /\ graph.nodes[graph.edges[i].target].kind =
              (IF graph.edges[i].rel = "REQUIRES_SKILL" THEN "skill"
               ELSE "category")
    /\ \A id \in DOMAIN graph.nodes :
         /\ graph.nodes[id].id = id
         /\ graph.nodes[id].kind \in {"job", "skill", "category"}
         /\ HasPrefix(id, KindPrefix(graph.nodes[id].kind))

\* C4 witness: a built graph with a skill edge and a category edge
C4_Witness ==
  /\ pc = "built"
  /\ EdgeIdx(graph, "REQUIRES_SKILL") # {}
  /\ EdgeIdx(graph, "IN_CATEGORY") # {}
  /\ SkillNodeIds(graph) # {}

\* the number of positions of edges that hold the edge e
Occurrences(edges, e) == Cardinality({i \in 1..Len(edges) : edges[i] = e})

\* C5: the subgraph holds exactly the job nodes of the sampled set, exactly
\* the original edges whose source is sampled (each as often as in the
\* original), and exactly the skill and category nodes those edges target;
\* every subgraph edge has both endpoints in the subgraph.
C5_SubgraphContents ==
  pc = "sampled" =>
    /\ JobNodeIds(subgraph) = sampled
    /\ \A i \in 1..Len(subgraph.edges) : subgraph.edges[i].source \in sampled
    /\ \A i \in 1..Len(graph.edges) :
         graph.edges[i].source \in sampled =>
           Occurrences(subgraph.edges, graph.edges[i])
             = Occurrences(graph.edges, graph.edges[i])
    /\ \A i \in 1..Len(subgraph.edges) :
         Occurrences(graph.edges, subgraph.edges[i])
           = Occurrences(subgraph.edges, subgraph.edges[i])
    /\ (DOMAIN subgraph.nodes) \ sampled =
         {subgraph.edges[i].target : i \in 1..Len(subgraph.edges)}
    /\ \A id \in DOMAIN subgraph.nodes : subgraph.nodes[id] = graph.nodes[id]
    /\ \A i \in 1..Len(subgraph.edges) :
         /\ subgraph.edges[i].source \in DOMAIN subgraph.nodes
         /\ subgraph.edges[i].target \in DOMAIN subgraph.nodes

\* C5 witness: one of two jobs is sampled and the other job's edges stay out
C5_Witness ==
  /\ pc = "sampled"
  /\ sampled # {}
  /\ sampled # JobNodeIds(graph)
  /\ subgraph.edges # <<>>
  /\ Len(subgraph.edges) < Len(graph.edges)
  /\ SkillNodeIds(graph) \ DOMAIN subgraph.nodes # {}

\* C8: a skill node is in the built graph exactly when its canonical key is
\* in the normalizer dictionary and a REQUIRES_SKILL edge targets it; a
\* dictionary entry without a surviving edge is not a node.
C8_SkillNodes ==
  Built =>
    LET targeted == {graph.edges[i].target : i \in EdgeIdx(graph, "REQUIRES_SKILL")}
        known == {SKILL_PREFIX \o key : key \in DOMAIN normalizer.skill_dictionary}
    IN /\ SkillNodeIds(graph) = known \cap targeted
       /\ \A id \in known \ targeted : id \notin DOMAIN graph.nodes
       /\ \A id \in SkillNodeIds(graph) :
            SKILL_PREFIX \o graph.nodes[id].canonical_key = id

\* C8 witness: one canonical skill is a node, another lost all its mentions
\* to a filter and is not
C8_Witness ==
  /\ pc = "built"
  /\ SkillNodeIds(graph) # {}
  /\ \E key \in DOMAIN normalizer.skill_dictionary :
       (SKILL_PREFIX \o key) \notin DOMAIN graph.nodes

(***************************************************************************)
(* Properties of the skill edges of one row.                               *)
(***************************************************************************)
\* the mentions of the first row
RowSkills == data[1].skills

\* mention i passes the bucket allow-list and the similarity threshold
PassesFilters(i) ==
  /\ config.buckets = {} \/ RowSkills[i].bucket \in config.buckets
  /\ RowSkills[i].mapping_similarity >= config.min_similarity

\* the skill node id mention i resolves to, or None
ResolvedSkill(i) == GetSkillId(normalizer, RowSkills[i].skill)

\* mention a is ahead of mention b in the order 'similarity descending, ties
\* in original order'
Ahead(a, b) ==
  \/ RowSkills[a].mapping_similarity > RowSkills[b].mapping_similarity
  \/ /\ RowSkills[a].mapping_similarity = RowSkills[b].mapping_similarity
     /\ a < b

\* mention i stays in the list: it passes the filters, is mappable, and no
\* mention ahead of it that also stays resolves to the same skill
Kept(i) ==
  /\ PassesFilters(i)
  /\ ResolvedSkill(i) # None
  /\ ~\E j \in 1..Len(RowSkills) :
        /\ Ahead(j, i)
        /\ PassesFilters(j)
        /\ ResolvedSkill(j) = ResolvedSkill(i)

\* the number of kept mentions ahead of mention i
Rank(i) == Cardinality({j \in 1..Len(RowSkills) : Kept(j) /\ Ahead(j, i)})

\* the REQUIRES_SKILL edges of the graph, in edge-list order
RECURSIVE SelectRel(_, _)
SelectRel(edges, rel) ==
  IF edges = <<>> THEN <<>>
  ELSE IF Head(edges).rel = rel
       THEN <<Head(edges)>> \o SelectRel(Tail(edges), rel)
       ELSE SelectRel(Tail(edges), rel)

SkillEdges == SelectRel(graph.edges, "REQUIRES_SKILL")

\* C6: with top_k_skills = k > 0 the REQUIRES_SKILL edges of a row are
\* exactly the first k entries (all, if fewer) of the list obtained by
\* sorting the mentions by mapping_similarity descending, ties in original
\* order, and dropping the mentions that fail the bucket filter, are below
\* min_similarity, are unmappable or repeat a canonical skill; with k = 0
\* every entry of that list yields an edge.
C6_TopKEdges ==
  (pc = "built" /\ Len(data) = 1) =>
    LET k == config.top_k_skills
        expected == {i \in 1..Len(RowSkills) : Kept(i) /\ (k = 0 \/ Rank(i) < k)}
    IN /\ Len(SkillEdges) = Cardinality(expected)
       /\ \A i \in expected :
            /\ SkillEdges[Rank(i) + 1].target = ResolvedSkill(i)
            /\ SkillEdges[Rank(i) + 1].bucket = RowSkills[i].bucket
            /\ SkillEdges[Rank(i) + 1].mapping_similarity
                 = Round4(RowSkills[i].mapping_similarity)
            /\ SkillEdges[Rank(i) + 1].source = JOB_PREFIX \o data[1].job_id

\* C6 witness: similarities 0.5, 0.9, 0.7 with top_k_skills = 2 give exactly
\* the two edges for 0.9 and 0.7
C6_Witness ==
  /\ pc = "built"
  /\ config.top_k_skills = 2
  /\ data = <<Row(<<"1">>, <<<<>>, <<>>>>,
                  <<Mention(SQL, "extra", 50000), Mention(PY, "core", 90000),
                    Mention(GO, "core", 70000)>>)>>
  /\ Len(SkillEdges) = 2
  /\ SkillEdges[1].mapping_similarity = 90000
  /\ SkillEdges[2].mapping_similarity = 70000

\* the mentions that resolve to skill t and pass both filters
PassingMentionsOf(t) ==
  {i \in 1..Len(RowSkills) : PassesFilters(i) /\ ResolvedSkill(i) = t}

\* the highest mapping_similarity among a non-empty set of mentions
HighestSimilarity(I) ==
  CHOOSE x \in {RowSkills[i].mapping_similarity : i \in I} :
    \A i \in I : RowSkills[i].mapping_similarity <= x

\* the skill ids with at least two passing mentions in the row
RepeatedSkills ==
  {t \in {ResolvedSkill(i) : i \in 1..Len(RowSkills)} :
     t # None /\ Cardinality(PassingMentionsOf(t)) >= 2}

\* the REQUIRES_SKILL edges of the graph that target t
EdgesTo(t) == {i \in 1..Len(SkillEdges) : SkillEdges[i].target = t}

\* C7 as stated: several passing mentions of one canonical skill give a
\* single REQUIRES_SKILL edge to it, carrying the highest mapping_similarity
\* among those mentions (as an edge stores it, rounded to 4 decimals).
C7_DedupKeepsHighest ==
  (pc = "built" /\ Len(data) = 1) =>
    \A t \in RepeatedSkills :
      /\ Cardinality(EdgesTo(t)) = 1
      /\ \A e \in EdgesTo(t) :
           SkillEdges[e].mapping_similarity
             = Round4(HighestSimilarity(PassingMentionsOf(t)))

\* the canonical skills, other than t, that have a passing mention ahead of
\* every passing mention of t
SkillsAheadOf(t) ==
  {u \in {ResolvedSkill(j) : j \in 1..Len(RowSkills)} :
     /\ u # None
     /\ u # t
     /\ \E j \in PassingMentionsOf(u) :
          \A i \in PassingMentionsOf(t) : Ahead(j, i)}

\* C7 amended: several passing mentions of one canonical skill give at most
\* one REQUIRES_SKILL edge to it: exactly one unless top_k_skills > 0 and at
\* least top_k_skills other canonical skills have a passing mention ahead of
\* all of them, and none then; the edge carries the highest
\* mapping_similarity among those mentions (rounded to 4 decimals), whatever
\* the order of the mentions in the row.
C7_DedupKeepsHighestRounded ==
  (pc = "built" /\ Len(data) = 1) =>
    \A t \in RepeatedSkills :
      LET cut == /\ config.top_k_skills > 0
                 /\ Cardinality(SkillsAheadOf(t)) >= config.top_k_skills
      IN /\ Cardinality(EdgesTo(t)) = (IF cut THEN 0 ELSE 1)
         /\ \A e \in EdgesTo(t) :
              SkillEdges[e].mapping_similarity
                = Round4(HighestSimilarity(PassingMentionsOf(t)))

\* C7 witness: the same label with 0.6 first and 0.9 second collapses to one
\* edge carrying 0.9
C7_Witness ==
  /\ pc = "built"
  /\ Len(data) = 1
  /\ RowSkills = <<Mention(PY, "core", 60000), Mention(PY, "core", 90000)>>
  /\ Len(SkillEdges) = 1
  /\ SkillEdges[1].mapping_similarity = 90000

(***************************************************************************)
(* Properties of the normalizer.                                           *)
(***************************************************************************)
\* the raw label of call i as _register_skill keeps it
CallLabel(i) == Strip(calls[i].skill)

\* the calls that registered an alias
AcceptedCalls ==
  {i \in 1..Len(calls) :
     /\ calls[i].skill # NotAString
     /\ CallLabel(i) \in DOMAIN normalizer.alias_map}

\* the raw label without letter case, surrounding whitespace and trailing
\* punctuation
Folded(raw) == Strip(RStripSet(Lower(Strip(raw)), TrailingPunctuation))

\* labels that differ only in case, surrounding whitespace or trailing
\* punctuation get the same canonical key
SameKeyForVariants ==
  \A i, j \in AcceptedCalls :
    Folded(calls[i].skill) = Folded(calls[j].skill) =>
      normalizer.alias_map[CallLabel(i)] = normalizer.alias_map[CallLabel(j)]

C10_DedupRatioNonNegative ==
  pc = "register" =>
    /\ Cardinality(DOMAIN normalizer.skill_dictionary) <= normalizer.raw_skill_count
    /\ DedupRatio(normalizer) >= 0
    /\ normalizer.raw_skill_count = 0 => DedupRatio(normalizer) = 0

\* C10 witness: an accepted, a rejected and a malformed mention were
\* registered
C10_Witness ==
  /\ pc = "register"
  /\ Len(calls) = 3
  /\ normalizer.raw_skill_count = 2
  /\ Cardinality(DOMAIN normalizer.skill_dictionary) = 1
  /\ \E i \in 1..Len(calls) : calls[i].skill \in {<<>>, NotAString, BLANK}
\* C11: a get_skill_id call leaves the skill dictionary, the alias map and
\* the raw and normalized counters as they were, whether the label hits the
\* alias map, resolves through on-the-fly canonicalization or misses (a step
\* that adds no _register_skill call is a get_skill_id call).
C11_LookupLeavesState ==
  [][(pc = "register" /\ calls' = calls) => normalizer' = normalizer]_vars

\* C11 witness: "PY." was looked up and resolved on the fly, "Py" being the
\* only alias registered
C11_Witness ==
  /\ pc = "register"
  /\ looked = PY_DOT
  /\ ret = SKILL_PREFIX \o <<"p","y">>
  /\ DOMAIN normalizer.alias_map = {PY}
  /\ normalizer.raw_skill_count = 1

(***************************************************************************)
(* Properties of the samplers.                                             *)
(***************************************************************************)
\* Z^2 in units of 1e-6
ZSquared ==
  CASE config.conf_level = 900 -> 1645 * 1645
    [] config.conf_level = 950 -> 1960 * 1960
    [] config.conf_level = 990 -> 2576 * 2576
    [] config.conf_level = 999 -> 3291 * 3291

\* p in units of 1e-2
Proportion == IF config.p_worstcase THEN 50 ELSE config.p_estimate

\* n0 = Z^2 * p * (1 - p) / e^2 as a fraction in lowest terms
CochranN0 ==
  Frac(ZSquared * ((Proportion * (100 - Proportion)) \div 100),
       config.margin_error * config.margin_error * 100)

\* t is the least integer that is not below num / den (den > 0)
IsCeilOf(t, num, den) == t * den >= num /\ (t - 1) * den < num

\* C12: the target size is ceil(n) with n0 = Z^2 * p * (1-p) / e^2 and
\* n = n0 / (1 + (n0-1)/N) = n0 * N / (N + n0 - 1) when finite correction
\* is enabled and N > 0, else n = n0; for N = 1000, Z = 1.960, e = 0.05,
\* p = 0.5 n0 is 384.16 and the target with finite correction is 278.
C12_SampleSize ==
  pc = "sized" =>
    LET a == CochranN0.num
        b == CochranN0.den
        N == sampler.N
    IN /\ IF config.finite_correction /\ N > 0
          THEN IsCeilOf(sampler.n, a * N, b * N + a - b)
          ELSE IsCeilOf(sampler.n, a, b)
       /\ (/\ config.conf_level = 950 /\ config.margin_error = 50
           /\ config.p_worstcase /\ N = 1000)
            => /\ sampler.formula_details.n0 = 38416
               /\ sampler.n = (IF config.finite_correction THEN 278 ELSE 385)

\* C12 witness: the size computed for N = 1000 at 95% confidence, margin
\* 0.05 and p = 0.5 with finite correction
C12_Witness ==
  /\ pc = "sized"
  /\ config.conf_level = 950 /\ config.margin_error = 50
  /\ config.p_worstcase /\ config.finite_correction
  /\ sampler.N = 1000
  /\ sampler.n = 278

\* the cost model: 500 + 100 + s*150 + s*20 bytes per job, with
\* s = top_k_skills if positive else 8
BytesPerJob ==
  LET s == IF config.top_k_skills > 0 THEN config.top_k_skills ELSE 8
  IN 500 + 100 + s * 150 + s * 20

\* m = floor(subset_max_bytes / BytesPerJob * 0.8)
IsBudgetFloor(m) ==
  /\ m * BytesPerJob * 10 <= config.subset_max_bytes * 8
  /\ (m + 1) * BytesPerJob * 10 > config.subset_max_bytes * 8

\* the estimate is max(100, floor(subset_max_bytes / BytesPerJob * 0.8))
EstimateFollowsCostModel ==
  \/ sampler.max_jobs = 100 /\ \E m \in 0..100 : IsBudgetFloor(m)
  \/ sampler.max_jobs > 100 /\ IsBudgetFloor(sampler.max_jobs)

\* the run with subset_max_bytes = 100,000,000 and the default 8 skills
DefaultBudgetRun ==
  /\ pc = "estimated"
  /\ config.subset_max_bytes = 100000000
  /\ config.top_k_skills \in {0, 8}

\* C15 as stated: the estimate follows the cost model, and for
\* subset_max_bytes = 100,000,000 and the default s = 8 it is 38,865.
C15_EstimateIs38865 ==
  pc = "estimated" =>
    /\ EstimateFollowsCostModel
    /\ DefaultBudgetRun => sampler.max_jobs = 38865

\* C15 amended: the estimate is
\* max(100, floor(subset_max_bytes / (500 + 100 + s*150 + s*20) * 0.8)) with
\* s = top_k_skills if positive else 8, and for subset_max_bytes =
\* 100,000,000 and the default s = 8 it is 40,816.
C15_EstimateIs40816 ==
  pc = "estimated" =>
    /\ EstimateFollowsCostModel
    /\ DefaultBudgetRun => sampler.max_jobs = 40816

\* C15 witness: the estimate for 100,000,000 bytes with top_k_skills unset
C15_Witness ==
  /\ DefaultBudgetRun
  /\ config.top_k_skills = 0
  /\ sampler.max_jobs = 40816

\* the stratum of a job of the graph: the target of its IN_CATEGORY edge,
\* "uncategorized" without one
StratumOfJob(job) ==
  IF \E i \in EdgeIdx(graph, "IN_CATEGORY") : graph.edges[i].source = job
  THEN graph.edges[CHOOSE i \in EdgeIdx(graph, "IN_CATEGORY") :
                     graph.edges[i].source = job].target
  ELSE UNCATEGORIZED

\* the jobs that have an IN_CATEGORY edge
CategorizedJobs ==
  {graph.edges[i].source : i \in EdgeIdx(graph, "IN_CATEGORY")}

\* the jobs of a stratum (a job of the assembled graph has at most one
\* IN_CATEGORY edge)
JobsOfStratum(c) ==
  IF c = UNCATEGORIZED
  THEN JobNodeIds(graph) \ CategorizedJobs
  ELSE {graph.edges[i].source :
          i \in {k \in EdgeIdx(graph, "IN_CATEGORY") : graph.edges[k].target = c}}

\* the strata of the graph
Strata ==
  {graph.edges[i].target : i \in EdgeIdx(graph, "IN_CATEGORY")}
    \cup (IF JobNodeIds(graph) \subseteq CategorizedJobs THEN {}
          ELSE {UNCATEGORIZED})

\* the runs of one sampling strategy
RunsOf(mode) == {i \in 1..Len(sampler.runs) : sampler.runs[i].mode = mode}

\* C13: in a statistical run every stratum with fewer jobs than
\* min_per_category has all its jobs in the sample, and the warnings of the
\* report hold a warning that names the stratum.
C13_SmallStratumTakenWhole ==
  \A i \in RunsOf("stats") :
    \A c \in Strata :
      Cardinality(JobsOfStratum(c)) < config.min_per_category =>
        /\ JobsOfStratum(c) \subseteq sampler.runs[i].sampled
        /\ \E w \in 1..Len(sampler.runs[i].report.warnings) :
             /\ sampler.runs[i].report.warnings[w].cat_id = c
             /\ sampler.runs[i].report.warnings[w].N_h
                  = Cardinality(JobsOfStratum(c))

\* C13 witness: with min_per_category = 30 the stratum cat:it of 10 jobs is
\* sampled whole and warned about, while a job of the stratum of 40 is left
\* out
C13_Witness ==
  /\ RunsOf("stats") # {}
  /\ config.min_per_category = 30
  /\ Cardinality(JobsOfStratum(CAT_PREFIX \o <<"i","t">>)) = 10
  /\ \A i \in RunsOf("stats") :
       /\ JobsOfStratum(CAT_PREFIX \o <<"i","t">>) \subseteq sampler.runs[i].sampled
       /\ sampler.runs[i].sampled # JobNodeIds(graph)
       /\ Len(sampler.runs[i].report.warnings) = 1
       /\ sampler.runs[i].report.warnings[1].cat_id = CAT_PREFIX \o <<"i","t">>

\* the categories of the rows in row order, each once
FirstAppearanceIn(RowCategory) ==
  LET firsts == {i \in 1..Len(RowCategory) :
                   /\ RowCategory[i] # None
                   /\ \A j \in 1..(i - 1) : RowCategory[j] # RowCategory[i]}
  IN [k \in 1..Cardinality(firsts) |->
        RowCategory[CHOOSE i \in firsts :
                      Cardinality({j \in firsts : j < i}) = k - 1]]

FirstAppearance == FirstAppearanceIn([i \in 1..Len(data) |-> CategoryId(data[i])])

\* q is p followed by more entries
IsPrefixOf(p, q) == Len(p) <= Len(q) /\ SubSeq(q, 1, Len(p)) = p

\* q with the entries outside S removed
Restrict(q, S) == SelectSeq(q, LAMBDA x : x \in S)

\* C14: two calls of sample of the same strategy with the same seed,
\* configuration and graph give the same sampled job ids (and the same
\* report); the performance sampler visits the strata in the order in which
\* their categories first appear among the rows of the input, up to the
\* stratum at which the budget is reached.
C14_SameSeedSameSample ==
  /\ \A mode \in {"stats", "perf"} :
       \A i, j \in RunsOf(mode) :
         /\ sampler.runs[i].sampled = sampler.runs[j].sampled
         /\ sampler.runs[i].strata_order = sampler.runs[j].strata_order
         /\ sampler.runs[i].report = sampler.runs[j].report
  /\ \A i \in RunsOf("perf") :
       IsPrefixOf(sampler.runs[i].strata_order,
                  Restrict(FirstAppearance, SelectCategories(graph, config)))

\* C14 witness: two performance runs over more eligible jobs than the
\* budget, each drawing part of a stratum, with the same result
C14_Witness ==
  /\ Len(sampler.runs) = 2
  /\ RunsOf("perf") = {1, 2}
  /\ Len(sampler.runs[1].strata_order) >= 2
  /\ sampler.runs[1].sampled = sampler.runs[2].sampled
  /\ sampler.runs[1].sampled # {}
  /\ sampler.runs[1].report.result.jobs_sampled
       < sampler.runs[1].report.result.eligible_jobs

(***************************************************************************)
(* Properties of the parser.                                               *)
(***************************************************************************)
\* the rows of the file read so far
RowsRead == 1..parser.total_rows

\* the parsed rows and the bad-row records of the row at position i
EmittedFor(i) == {k \in 1..Len(data) : data[k].row_idx = i - 1}

BadRowsFor(i) == {k \in 1..Len(parser.bad_rows) :
                    parser.bad_rows[k].row_idx = i - 1}

\* the skills cell of row i holds a text that json.loads rejects
Unparsable(i) ==
  LET cell == input[i]["importance_standardised"] IN
  ~cell.nan /\ ~cell.blank /\ cell.loads = JSONDecodeError

\* the skills cell of row i holds a JSON list
ParsableList(i) ==
  LET cell == input[i]["importance_standardised"] IN
  ~cell.nan /\ ~cell.blank /\ cell.loads # JSONDecodeError
    /\ cell.loads.type = "array"

\* an entry of a skills list is a record with a str skill and a similarity
\* that is a number or a str
WellFormed(entry) ==
  /\ entry.type = "object"
  /\ "skill" \in DOMAIN entry.fields
  /\ entry.fields["skill"].type = "string"
  /\ Strip(entry.fields["skill"].text) # <<>>
  /\ "mapping_similarity" \in DOMAIN entry.fields =>
       entry.fields["mapping_similarity"].type \in {"number", "string"}

\* the labels of the well-formed entries of the skills list of row i
WellFormedLabels(i) ==
  LET items == input[i]["importance_standardised"].loads.items
      kept == SelectSeq(items, WellFormed)
  IN [k \in 1..Len(kept) |-> Strip(kept[k].fields["skill"].text)]

\* the bad-row handling of the rows whose mention list cannot be parsed
UnparsableRowsRejected ==
  \A i \in RowsRead :
    Unparsable(i) =>
      /\ EmittedFor(i) = {}
      /\ Cardinality(BadRowsFor(i)) = 1
      /\ \A k \in BadRowsFor(i) :
           /\ parser.bad_rows[k].job_title = SafeStrCell(input[i]["Job Title"])
           /\ parser.bad_rows[k].company_name
                = SafeStrCell(input[i]["Company Name"])

\* every row read is parsed or logged, never both
RowsAccounted ==
  /\ parser.total_rows = parser.parsed_rows + Len(parser.bad_rows)
  /\ parser.parsed_rows = Len(data)
  /\ \A i \in RowsRead : Cardinality(EmittedFor(i)) + Cardinality(BadRowsFor(i)) = 1

\* C16 (as stated): a row whose mention list cannot be parsed is not emitted
\* and gets exactly one bad-row record with its index, job title and
\* company name, and the rows after it are still read;
\* total_rows = parsed_rows + number of bad-row records; and a row whose
\* mention list is a parsable list is emitted with exactly its well-formed
\* mentions, the malformed ones being skipped.
C16_MalformedMentionSkipped ==
  /\ UnparsableRowsRejected
  /\ RowsAccounted
  /\ \A i \in RowsRead :
       ParsableList(i) =>
         /\ BadRowsFor(i) = {}
         /\ \A k \in EmittedFor(i) :
              [m \in 1..Len(data[k].skills) |-> data[k].skills[m].skill]
                = WellFormedLabels(i)

(***************************************************************************)
(* Properties of the category resolution.                                  *)
(***************************************************************************)
\* empty after trimming
IsBlank(text) == Strip(text) = <<>>

\* the label of a row: the primary column if not blank, else the fallback
\* column if not blank, else none
ResolvedLabel(row) ==
  IF ~IsBlank(row.assigned_occupation_group)
  THEN Strip(row.assigned_occupation_group)
  ELSE IF ~IsBlank(row.group_name) THEN Strip(row.group_name)
  ELSE None

\* the categories of the resolved labels of the rows of a job, in row order
ResolvedCategories(job_id) ==
  LET rows == SelectSeq(data, LAMBDA row :
                 /\ JOB_PREFIX \o row.job_id = job_id
                 /\ ResolvedLabel(row) # None)
  IN [k \in 1..Len(rows) |->
        CAT_PREFIX \o slugify(Lower(ResolvedLabel(rows[k])))]

\* the targets of the IN_CATEGORY edges of a job, in edge order
CategoryEdgesOf(job_id) ==
  LET edges == SelectSeq(graph.edges, LAMBDA edge :
                 edge.rel = "IN_CATEGORY" /\ edge.source = job_id)
  IN [k \in 1..Len(edges) |-> edges[k].target]

CallsOf(raw) == {i \in 1..Len(calls) : calls[i].skill = raw}

\* calls i and j got the same normalized text and the same canonical key
SameCanonicalForm(i, j) ==
  /\ Normalize(calls[i].skill) = Normalize(calls[j].skill)
  /\ CallLabel(i) \in DOMAIN normalizer.alias_map
  /\ CallLabel(j) \in DOMAIN normalizer.alias_map
  /\ normalizer.alias_map[CallLabel(i)] = normalizer.alias_map[CallLabel(j)]

\* C18 (as stated): an ampersand between two words with surrounding spaces
\* is expanded to " and ": "research & development" gets the normalized
\* text and the canonical key of "research and development".
C18_SpacedAmpersandExpanded ==
  \A i \in CallsOf(RD_AMPERSAND) : \A j \in CallsOf(RD_AND) :
    SameCanonicalForm(i, j)

\* C19 (as stated): "w/" is expanded to "with " and "w/o" to "without ":
\* "w/ python" gets the normalized text and the canonical key of
\* "with python", and "w/o python" those of "without python".
C19_WithExpanded ==
  /\ \A i \in CallsOf(W_SLASH_PYTHON) : \A j \in CallsOf(WITH_PYTHON) :
       SameCanonicalForm(i, j)
  /\ \A i \in CallsOf(W_SLASH_O_PYTHON) : \A j \in CallsOf(WITHOUT_PYTHON) :
       SameCanonicalForm(i, j)

\* the normalized text is empty, shorter than 2 or longer than 100
\* characters, or holds only digits, whitespace and . , -
AgainstPolicy(normalized) ==
  \/ normalized = <<>>
  \/ Len(normalized) < 2
  \/ Len(normalized) > 100
  \/ \A i \in 1..Len(normalized) :
       normalized[i] \in Digits \cup Whitespace \cup {".", ",", "-"}

\* a call of _register_skill with skill_entry that took the normalizer from
\* before to after and returned a value follows the rejection policy
CallFollowsPolicy(skill_entry, before, after, returned) ==
  LET normalized == Normalize(skill_entry.skill)
      canonical_key == slugify(normalized)
  IN /\ AgainstPolicy(normalized) =>
          /\ returned = None
          /\ after.skill_dictionary = before.skill_dictionary
          /\ after.alias_map = before.alias_map
     /\ (~AgainstPolicy(normalized) /\ canonical_key # <<>>) =>
          /\ returned = canonical_key
          /\ canonical_key \in DOMAIN after.skill_dictionary

\* C20: a call of _register_skill whose normalized text is against the
\* rejection policy returns None and leaves the skill dictionary and the
\* alias map as they were; any other call whose slug is not empty returns
\* the slug and the dictionary then has an entry for it.
C20_RejectionPolicy ==
  [][calls' # calls =>
       CallFollowsPolicy(calls'[Len(calls')], normalizer, normalizer', ret')]_vars

\* C20 witness: the label of 100 letters was registered, then the label of
\* 101 letters was rejected and left the dictionary with its one entry
C20_Witness ==
  /\ pc = "register"
  /\ Len(calls) = 2
  /\ calls[1].skill = Letters(100)
  /\ calls[2].skill = Letters(101)
  /\ ret = None
  /\ DOMAIN normalizer.skill_dictionary = {Letters(100)}
  /\ DOMAIN normalizer.alias_map = {Letters(100)}
  /\ normalizer.raw_skill_count = 2

(***************************************************************************)
(* Properties of the display label.                                        *)
(***************************************************************************)
\* the total length of a list of words
RECURSIVE TotalLen(_)
TotalLen(ws) == IF ws = <<>> THEN 0 ELSE Len(Head(ws)) + TotalLen(Tail(ws))

\* the positions at which a word of s starts
WordStarts(s) ==
  {i \in 1..Len(s) : s[i] \notin Whitespace /\ (i = 1 \/ s[i - 1] \in Whitespace)}

\* the word of s that starts at position i
WordFrom(s, i) ==
  SubSeq(s, i, CHOOSE e \in i..Len(s) :
                 /\ \A m \in i..e : s[m] \notin Whitespace
                 /\ (e = Len(s) \/ s[e + 1] \in Whitespace))

\* the words of s in order
WordsIn(s) ==
  [k \in 1..Cardinality(WordStarts(s)) |->
     WordFrom(s, CHOOSE i \in WordStarts(s) :
                   Cardinality({j \in WordStarts(s) : j < i}) = k - 1)]

\* a fully uppercase word of at most 5 characters
IsAcronym(w) ==
  /\ Len(w) <= 5
  /\ \E i \in 1..Len(w) : IsUpper(w[i])
  /\ \A i \in 1..Len(w) : ~IsLower(w[i])

\* label is the display label derived from raw: the words of raw joined by
\* single spaces, an acronym as it is, any other word with its first
\* character in upper case and the others in lower case
IsDisplayLabelOf(label, raw) ==
  LET words == WordsIn(raw)
      shown == WordsIn(label)
  IN /\ Len(shown) = Len(words)
     /\ Len(label) = Len(words) - 1 + TotalLen(words)
     /\ \A k \in 1..Len(words) :
          IF IsAcronym(words[k]) THEN shown[k] = words[k]
          ELSE /\ Len(shown[k]) = Len(words[k])
               /\ \A i \in 1..Len(words[k]) :
                    shown[k][i] = (IF i = 1 THEN UpperChar(words[k][i])
                                   ELSE LowerChar(words[k][i]))

\* the first call that registered an alias of the key
FirstCallOf(key) ==
  CHOOSE i \in AcceptedCalls :
    /\ normalizer.alias_map[CallLabel(i)] = key
    /\ \A j \in AcceptedCalls :
         normalizer.alias_map[CallLabel(j)] = key => i <= j

\* C21: the canonical_label of every dictionary entry is the display label
\* (title case per word, a fully uppercase word of at most 5 characters kept
\* as it is) of the first raw string registered for its key, whatever
\* aliases of the key were registered after it.
C21_LabelFromFirstRawString ==
  \A key \in DOMAIN normalizer.skill_dictionary :
    IsDisplayLabelOf(normalizer.skill_dictionary[key].canonical_label,
                     CallLabel(FirstCallOf(key)))

\* C21 witness: "PY." created the entry py with the label "PY.", and the
\* later aliases "Py" and "py" left the label as it was
C21_Witness ==
  /\ Len(calls) = 3
  /\ calls[1].skill = PY_DOT /\ calls[2].skill = PY /\ calls[3].skill = PY_SPACE
  /\ <<"p","y">> \in DOMAIN normalizer.skill_dictionary
  /\ normalizer.skill_dictionary[<<"p","y">>].canonical_label = PY_DOT
  /\ normalizer.skill_dictionary[<<"p","y">>].aliases = {PY_DOT, PY, <<"p","y">>}

(***************************************************************************)
(* Properties of the statistical sampler.                                  *)
(***************************************************************************)
\* the least integer that is not below num / den (den > 0, num >= 0)
CeilOf(num, den) == (num + den - 1) \div den

\* the allocation of a stratum of N_h jobs out of N for the target n
ProportionalAllocation(n, N_h, N, min_per) ==
  IF N_h < min_per THEN N_h ELSE Max(CeilOf(n * N_h, N), min_per)

\* C22 (as stated): in a statistical run the allocation of every stratum h
\* with N_h of the N jobs is N_h if N_h < min_per_category, and otherwise
\* max(ceil(n * N_h / N), min_per_category) for the target n; the report
\* shows these allocations, none reduced, whatever their sum is.
C22_ProportionalAllocation ==
  \A i \in RunsOf("stats") :
    \A c \in Strata :
      sampler.runs[i].report.stratification[c].allocated
        = ProportionalAllocation(sampler.runs[i].report.sample.target_n,
                                 Cardinality(JobsOfStratum(c)),
                                 Cardinality(JobNodeIds(graph)),
                                 config.min_per_category)

\* the total of the allocations shown in the report of run i
TotalAllocated(i) ==
  LET stratification == sampler.runs[i].report.stratification
  IN SumOver([c \in DOMAIN stratification |-> stratification[c].allocated],
             DOMAIN stratification)

\* the allocations of run i sum to more than 1.5 times the target
Overshoots(i) == 2 * TotalAllocated(i) > 3 * sampler.runs[i].report.sample.target_n

\* a warning about the total allocation and the target
IsOvershootWarning(w) == "total_allocated" \in DOMAIN w

\* C23 (as stated): whenever the allocations of a statistical run sum to more
\* than 1.5 times the target n, the warnings of the sampling report of that
\* run contain a warning about the overshoot.
C23_OvershootWarningReported ==
  \A i \in RunsOf("stats") :
    Overshoots(i) =>
      \E w \in 1..Len(sampler.runs[i].report.warnings) :
        IsOvershootWarning(sampler.runs[i].report.warnings[w])
\* the sampled counts of the report of run i, summed over its strata
TotalSampled(i) ==
  LET stratification == sampler.runs[i].report.stratification
  IN SumOver([c \in DOMAIN stratification |-> stratification[c].sampled],
             DOMAIN stratification)

\* C24: a statistical run stratifies the job nodes by the target of their
\* IN_CATEGORY edge ("uncategorized" without one) and selects from each
\* stratum exactly min(allocation, N_h) distinct jobs of that stratum; the
\* report shows N_h, the allocation and min(allocation, N_h) per stratum, and
\* actual_n is the sum of the sampled counts.
C24_StratifiedSample ==
  \A i \in RunsOf("stats") :
    LET run == sampler.runs[i]
        stratification == run.report.stratification
    IN /\ DOMAIN stratification = Strata
       /\ Range(run.strata_order) = Strata
       /\ run.sampled \subseteq JobNodeIds(graph)
       /\ \A c \in Strata :
            LET N_h == Cardinality(JobsOfStratum(c))
                n_h == Min(stratification[c].allocated, N_h)
            IN /\ Cardinality(run.sampled \cap JobsOfStratum(c)) = n_h
               /\ stratification[c].population = N_h
               /\ stratification[c].sampled = n_h
       /\ run.report.sample.actual_n = TotalSampled(i)
       /\ run.report.sample.actual_n = Cardinality(run.sampled)

\* C24 witness: of 101 jobs of cat:it and 2 jobs without category, a run
\* with target 3 and a minimum of 2 per category draws 3 jobs of cat:it and
\* both uncategorized jobs
C24_Witness ==
  /\ RunsOf("stats") # {}
  /\ Strata = {CAT_PREFIX \o <<"i","t">>, UNCATEGORIZED}
  /\ Cardinality(JobsOfStratum(UNCATEGORIZED)) = 2
  /\ \A i \in RunsOf("stats") :
       /\ sampler.runs[i].report.stratification[UNCATEGORIZED].sampled = 2
       /\ sampler.runs[i].report.stratification[CAT_PREFIX \o <<"i","t">>].population = 101
       /\ sampler.runs[i].report.stratification[CAT_PREFIX \o <<"i","t">>].sampled = 3
       /\ JobsOfStratum(UNCATEGORIZED) \subseteq sampler.runs[i].sampled
       /\ sampler.runs[i].report.sample.actual_n = 5

(***************************************************************************)
(* Properties of the performance sampler.                                  *)
(***************************************************************************)
\* the categories that are the target of at least one IN_CATEGORY edge
TargetedCategories ==
  {graph.edges[i].target : i \in EdgeIdx(graph, "IN_CATEGORY")}

\* the number of IN_CATEGORY edges into a category
EdgesInto(c) == InCategoryCount(graph, c)

\* S holds n of the targeted categories with the highest edge counts, all of
\* them when there are fewer than n
IsTopN(S, n) ==
  /\ S \subseteq TargetedCategories
  /\ Cardinality(S) = Min(n, Cardinality(TargetedCategories))
  /\ \A c \in S : \A d \in TargetedCategories \ S : EdgesInto(c) >= EdgesInto(d)

\* C25: the performance sampler selects the categories of a non-empty
\* category_list whatever subset_categories is; otherwise, with
\* subset_categories = n > 0, n categories with the highest IN_CATEGORY edge
\* counts (all categories if fewer than n exist); otherwise exactly the
\* categories targeted by at least one IN_CATEGORY edge.
C25_SelectedCategories ==
  \A i \in RunsOf("perf") :
    LET selected == sampler.runs[i].categories
    IN /\ sampler.runs[i].report.result.categories_included
            = Cardinality(selected)
       /\ IF config.category_list # {}
          THEN selected = {CAT_PREFIX \o c : c \in config.category_list}
          ELSE IF config.subset_categories > 0
          THEN IsTopN(selected, config.subset_categories)
          ELSE selected = TargetedCategories

\* C25 witness: with subset_categories = 1 and strata of 10 and 40 jobs the
\* category of the 40 jobs is the one selected
C25_Witness ==
  /\ RunsOf("perf") # {}
  /\ config.category_list = {}
  /\ config.subset_categories = 1
  /\ EdgesInto(CAT_PREFIX \o <<"i","t">>) = 10
  /\ EdgesInto(CAT_PREFIX \o <<"h","r">>) = 40
  /\ \A i \in RunsOf("perf") :
       sampler.runs[i].categories = {CAT_PREFIX \o <<"h","r">>}

\* the jobs whose IN_CATEGORY edge targets a selected category of run i
EligibleJobs(i) ==
  {job \in JobNodeIds(graph) :
     \E e \in EdgeIdx(graph, "IN_CATEGORY") :
       /\ graph.edges[e].source = job
       /\ graph.edges[e].target \in sampler.runs[i].categories}

\* C26: every job of a performance sample has an IN_CATEGORY edge into a
\* selected category, so a job without such an edge is never sampled, and
\* when the eligible jobs number at most the estimated maximum the sample is
\* exactly the set of eligible jobs.
C26_OnlyEligibleJobs ==
  \A i \in RunsOf("perf") :
    /\ sampler.runs[i].sampled \subseteq EligibleJobs(i)
    /\ sampler.runs[i].sampled \cap JobsOfStratum(UNCATEGORIZED) = {}
    /\ sampler.runs[i].report.result.eligible_jobs
         = Cardinality(EligibleJobs(i))
    /\ Cardinality(EligibleJobs(i)) <= EstimateMaxJobs(config) =>
         sampler.runs[i].sampled = EligibleJobs(i)

\* C26 witness: a graph with jobs of a selected category and jobs without
\* category, fewer than the budget: the sample is the set of the former
C26_Witness ==
  /\ RunsOf("perf") # {}
  /\ JobsOfStratum(UNCATEGORIZED) # {}
  /\ \A i \in RunsOf("perf") :
       /\ sampler.runs[i].sampled # {}
       /\ sampler.runs[i].sampled = EligibleJobs(i)
       /\ sampler.runs[i].sampled # JobNodeIds(graph)

\* the eligible jobs of run i outnumber the estimated maximum
OverBudget(i) == Cardinality(EligibleJobs(i)) > EstimateMaxJobs(config)

\* C27 (as stated): when the eligible jobs outnumber the estimated maximum
\* max_jobs, the performance sampler returns at most max_jobs jobs, whatever
\* the number, the sizes and the order of the strata.
C27_AtMostMaxJobs ==
  \A i \in RunsOf("perf") :
    OverBudget(i) =>
      Cardinality(sampler.runs[i].sampled) <= EstimateMaxJobs(config)

\* C28 (as stated): when the eligible jobs outnumber the estimated maximum,
\* every category with at least one eligible job has at least one job in the
\* performance sample.
C28_EveryCategorySampled ==
  \A i \in RunsOf("perf") :
    OverBudget(i) =>
      \A job \in EligibleJobs(i) :
        sampler.runs[i].sampled \cap JobsOfStratum(StratumOfJob(job)) # {}

(***************************************************************************)
(* Properties of rejected labels in the assembled graph.                   *)
(***************************************************************************)
\* _register_skill accepts the label of the mention
IsAccepted(m) ==
  /\ Strip(m.skill) # <<>>
  /\ ~Rejected(Normalize(Strip(m.skill)))
  /\ slugify(Normalize(Strip(m.skill))) # <<>>

\* the edge e of the graph goes from the job of row r to the skill under
\* which the k-th mention of the row is registered
EdgeOfMention(e, r, k) ==
  /\ graph.edges[e].source = JOB_PREFIX \o data[r].job_id
  /\ graph.edges[e].target
       = SKILL_PREFIX \o slugify(Normalize(Strip(data[r].skills[k].skill)))

\* C29 (as stated): a mention whose label the normalizer rejects at
\* registration never produces a REQUIRES_SKILL edge, whatever other labels
\* are in the dictionary: every REQUIRES_SKILL edge of a job is the edge of
\* an accepted mention of a row of that job.
C29_RejectedMentionNoEdge ==
  \A e \in EdgeIdx(graph, "REQUIRES_SKILL") :
    \E r \in 1..Len(data) :
      \E k \in 1..Len(data[r].skills) :
        IsAccepted(data[r].skills[k]) /\ EdgeOfMention(e, r, k)

(***************************************************************************)
(* Properties of the subgraph as a copy.                                   *)
(***************************************************************************)
\* C30: a call of sample of either strategy leaves the original graph as it
\* was (nodes, their attributes, edges and tracking sets), and a write to an
\* attribute of a node or an edge of the subgraph leaves it as it was too.
C30_OriginalUnchanged ==
  [][(sampler' # sampler \/ subgraph' # subgraph) => graph' = graph]_vars

\* C30 witness: after a statistical and a performance run an attribute of a
\* node or an edge of the subgraph has been written, and the subgraph
\* differs from the part of the original it was copied from
C30_Witness ==
  /\ pc = "written"
  /\ RunsOf("stats") # {}
  /\ RunsOf("perf") # {}
  /\ subgraph # BuildSubgraph(graph, sampled)
  /\ \E k \in 1..Len(subgraph.edges) : subgraph.edges[k].target = CHANGED
  /\ \A i \in 1..Len(graph.edges) : graph.edges[i].target # CHANGED

====
